---- MODULE Spec2Model ----
(***************************************************************************)
(* Model of the scan-crop application: the live-preview screen             *)
(* (CameraScreen.tsx with AutoDetectionBox), the still-image screen        *)
(* (PreviewScreen) and the pure helpers they call.  Lengths are pixels.    *)
(* The JS thread, the UI (gesture/animation) thread, timers and pending    *)
(* asynchronous operations interleave as separate actions.                 *)
(***************************************************************************)
EXTENDS Integers, Sequences, FiniteSets, Bags, TLC

(***************************************************************************)
(* Bounds of the model.                                                    *)
(***************************************************************************)
MaxGestures == 1
MaxToggles == 2
MaxShift == 900
MaxPreviewGestures == 1
MaxLayouts == 2
MaxInFlight == 2
MaxPan == 2500
MaxDim == 4
MaxDelta == 4
\* Significant bits of a number in the rounded arithmetic of the smoother.
MantissaBits == 3

(***************************************************************************)
(* Program constants.                                                      *)
(***************************************************************************)
SCREEN_WIDTH == 400
SCREEN_HEIGHT == 820
MIN_BOX_SIZE == 80
MAX_BOX_WIDTH_RATIO == 95
MAX_BOX_HEIGHT_RATIO == 40
POSITION_THRESHOLD == 5
SIZE_THRESHOLD == 10
previewTop == 120
previewBottom == 100
MaxHeightPx == 100
\* PreviewScreen's own window size.
PREVIEW_SCREEN_WIDTH == 500
PREVIEW_SCREEN_HEIGHT == 4000

isBoxLocked == FALSE

(***************************************************************************)
(* Numbers and rectangles.                                                 *)
(***************************************************************************)
Min(a, b) == IF a < b THEN a ELSE b
Max(a, b) == IF a > b THEN a ELSE b
Abs(a) == IF a < 0 THEN -a ELSE a

\* Math.round of the rational num/den (den > 0): floor(num/den + 1/2).
Round(num, den) == (2 * num + den) \div (2 * den)

Rect(x, y, w, h) == [x |-> x, y |-> y, width |-> w, height |-> h]

\* null (no rectangle).
NoRect == Rect(0, 0, -1, -1)

\* isValidBox: the box lies inside the container and has positive size.
isValidBox(box, containerWidth, containerHeight) ==
    /\ box.x >= 0
    /\ box.y >= 0
    /\ box.width > 0
    /\ box.height > 0
    /\ box.x + box.width <= containerWidth
    /\ box.y + box.height <= containerHeight

(***************************************************************************)
(* Fast region estimator.  Ratios are given in percent; the result is in   *)
(* units of 1/200 pixel, in which every intermediate value is an integer.  *)
(***************************************************************************)
DefaultOptions == [verticalBias |-> 18, widthRatio |-> 65, heightRatio |-> 10]

\* detectQuestionAreaFast without its clamp of the position.
detectQuestionAreaFast200_NoClamp(previewWidth, previewHeight, options) ==
    LET boxWidth == 2 * previewWidth * options.widthRatio
        boxHeight == Min(2 * previewHeight * options.heightRatio, 200 * MaxHeightPx)
        boxX == (200 * previewWidth - boxWidth) \div 2
        boxY == 2 * previewHeight * options.verticalBias - boxHeight \div 2
    IN  Rect(boxX, boxY, boxWidth, boxHeight)

\* detectQuestionAreaFast placing the top edge, not the centre, at the bias.
detectQuestionAreaFast200_TopAtBias(previewWidth, previewHeight, options) ==
    LET boxWidth == 2 * previewWidth * options.widthRatio
        boxHeight == Min(2 * previewHeight * options.heightRatio, 200 * MaxHeightPx)
        boxX == (200 * previewWidth - boxWidth) \div 2
        boxY == 2 * previewHeight * options.verticalBias
        clampedX == Max(0, Min(boxX, 200 * previewWidth - boxWidth))
        clampedY == Max(0, Min(boxY, 200 * previewHeight - boxHeight))
    IN  Rect(clampedX, clampedY, boxWidth, boxHeight)

detectQuestionAreaFast200(previewWidth, previewHeight, options) ==
    LET boxWidth == 2 * previewWidth * options.widthRatio
        boxHeight == Min(2 * previewHeight * options.heightRatio, 200 * MaxHeightPx)
        boxX == (200 * previewWidth - boxWidth) \div 2
        boxY == 2 * previewHeight * options.verticalBias - boxHeight \div 2
        clampedX == Max(0, Min(boxX, 200 * previewWidth - boxWidth))
        clampedY == Max(0, Min(boxY, 200 * previewHeight - boxHeight))
    IN  Rect(clampedX, clampedY, boxWidth, boxHeight)

\* The estimate in pixels (exact for the screen sizes of the model).
detectQuestionAreaFast(previewWidth, previewHeight, options) ==
    LET r == detectQuestionAreaFast200(previewWidth, previewHeight, options)
    IN  Rect(r.x \div 200, r.y \div 200, r.width \div 200, r.height \div 200)

(***************************************************************************)
(* Rectangle smoother: linear interpolation with factor num/den.           *)
(***************************************************************************)
Lerp(a, b, num, den) == a + ((b - a) * num) \div den

smoothBoxTransition(currentBox, newBox, num, den) ==
    IF currentBox = NoRect
    THEN newBox
    ELSE Rect(Lerp(currentBox.x, newBox.x, num, den),
              Lerp(currentBox.y, newBox.y, num, den),
              Lerp(currentBox.width, newBox.width, num, den),
              Lerp(currentBox.height, newBox.height, num, den))

(***************************************************************************)
(* Density region estimator (analyzeTextDensity).  The density of a grid   *)
(* cell is the product of a weight of its row and a weight of its column;  *)
(* rowWeight is in units of 1/80, colWeight in units of 1/25, so that a    *)
(* cell density is in units of 1/2000 and every comparison is exact.       *)
(***************************************************************************)
gridRows == 40
gridCols == 30

rowWeight(row) ==
    IF 100 * row >= 22 * gridRows /\ 100 * row <= 42 * gridRows
    THEN Max(0, 80 - 3 * Abs(128 - 10 * row))
    ELSE 0

colWeight(col) ==
    IF 100 * col >= 10 * gridCols /\ 100 * col <= 90 * gridCols
    THEN 25 - Abs(15 - col)
    ELSE 0

densityMap(row, col) == Max(0, rowWeight(row) * colWeight(col))

RECURSIVE SumTo(_, _)
\* f[0] + ... + f[n-1]
SumTo(f, n) == IF n = 0 THEN 0 ELSE f[n - 1] + SumTo(f, n - 1)

rowSum == [row \in 0..(gridRows - 1) |->
             SumTo([col \in 0..(gridCols - 1) |-> densityMap(row, col)], gridCols)]
colSum == [col \in 0..(gridCols - 1) |->
             SumTo([row \in 0..(gridRows - 1) |-> densityMap(row, col)], gridRows)]

maxDensity ==
    CHOOSE m \in {densityMap(r, c) : r \in 0..(gridRows - 1), c \in 0..(gridCols - 1)} :
        \A r \in 0..(gridRows - 1), c \in 0..(gridCols - 1) : densityMap(r, c) <= m

\* rowDensity > densityThreshold, with densityThreshold = maxDensity * 0.20.
rowAbove(row) == 5 * rowSum[row] > gridCols * maxDensity
colAbove(col) == 5 * colSum[col] > gridRows * maxDensity

\* The boundaries the scans find, given which rows and columns are above the
\* threshold.
topScan(above) ==
    LET start == (gridRows * 15) \div 100
        hits == {row \in start..((gridRows * 60) \div 100 - 1) : above[row]}
    IN  IF hits = {} THEN start
        ELSE CHOOSE row \in hits : \A other \in hits : row <= other

RECURSIVE bottomLoop(_, _, _, _)
bottomLoop(above, top, row, bottom) ==
    IF row > Min(top + (gridRows * 15) \div 100, gridRows - 1) THEN bottom
    ELSE IF above[row] THEN bottomLoop(above, top, row + 1, row)
    ELSE IF row > top + 2 THEN bottom
    ELSE bottomLoop(above, top, row + 1, bottom)

\* The bottom scan never going below the bottom it starts from.
bottomScan_AtLeastInitial(above, top) ==
    Max(bottomLoop(above, top, top + 1, top + (gridRows * 10) \div 100),
        top + (gridRows * 10) \div 100)

bottomScan(above, top) ==
    bottomLoop(above, top, top + 1, top + (gridRows * 10) \div 100)

leftScan(above) ==
    LET hits == {col \in 0..(gridCols - 1) : above[col]}
    IN  IF hits = {} THEN 0
        ELSE Max(0, (CHOOSE col \in hits : \A other \in hits : col <= other) - 1)

rightScan(above, left) ==
    LET hits == {col \in left..(gridCols - 1) : above[col]}
    IN  IF hits = {} THEN gridCols - 1
        ELSE Min(gridCols - 1, (CHOOSE col \in hits : \A other \in hits : col >= other) + 1)

\* The grid boundaries after the height and width limits.
gridBounds(rowsAbove, colsAbove) ==
    LET top == topScan(rowsAbove)
        bottom0 == bottomScan(rowsAbove, top)
        left0 == leftScan(colsAbove)
        right0 == rightScan(colsAbove, left0)
        bottom == IF 100 * (bottom0 - top + 1) > 12 * gridRows
                  THEN top + (12 * gridRows) \div 100
                  ELSE bottom0
        maxAllowedCols == (gridCols * 34) \div 100
        center == (left0 + right0) \div 2
        halfWidth == maxAllowedCols \div 2
        left1 == Max(0, center - halfWidth)
        right1 == Min(gridCols - 1, left1 + maxAllowedCols - 1)
        wide == right0 - left0 + 1 > maxAllowedCols
        left == IF ~wide THEN left0
                ELSE IF right1 >= gridCols - 1
                     THEN Max(0, (gridCols - 1) - maxAllowedCols + 1)
                     ELSE left1
        right == IF ~wide THEN right0 ELSE right1
    IN  [top |-> top, bottom |-> bottom, left |-> left, right |-> right]

detectedBounds ==
    gridBounds([row \in 0..(gridRows - 1) |-> rowAbove(row)],
               [col \in 0..(gridCols - 1) |-> colAbove(col)])

\* The screen rectangle for grid boundaries b.  Horizontal lengths in image
\* space are in units of imageWidth/1500, vertical ones of imageHeight/2000
\* (a cell is 50 units, the 2% padding of n cells is n units); the result is
\* exact when screenWidth is a multiple of 500 and screenHeight of 2000.
screenRectOf(b, screenWidth, screenHeight) ==
    LET imageX == 50 * b.left
        imageW == 50 * (b.right - b.left)
        imageY == 50 * b.top
        imageH == 50 * (b.bottom - b.top)
        paddingX == b.right - b.left
        paddingY == b.bottom - b.top
        tightX == Max(0, imageX - paddingX)
        tightY == Max(0, imageY - paddingY)
        tightW == Min(imageW + 2 * paddingX, 1500 - tightX)
        tightH == Min(imageH + 2 * paddingY, 2000 - tightY)
        finalX == Max(0, Min(tightX, 1500 - tightW))
        finalY == Max(0, Min(tightY, 2000 - tightH))
    IN  Rect((finalX * screenWidth) \div 1500, (finalY * screenHeight) \div 2000,
             (tightW * screenWidth) \div 1500, 35)

\* analyzeTextDensity from its boundary scans on: the rectangle returned for a
\* grid whose rows and columns above the threshold are the given ones.
densityScanRect(rowsAbove, colsAbove, screenWidth, screenHeight) ==
    screenRectOf(gridBounds(rowsAbove, colsAbove), screenWidth, screenHeight)

\* analyzeTextDensity when the image processing succeeds (it returns null when
\* it fails).  The image itself is never read.
analyzeTextDensity(screenWidth, screenHeight) ==
    screenRectOf(detectedBounds, screenWidth, screenHeight)

\* analyzeTextDensity as a whole: the rectangle, or null (NoRect) when the
\* image processing fails.
analyzeTextDensityResult(processed, screenWidth, screenHeight) ==
    IF processed THEN analyzeTextDensity(screenWidth, screenHeight) ELSE NoRect

\* detectTextArea, the geometric default; ratios are given in percent.
detectTextArea(screenWidth, screenHeight, options) ==
    LET documentTop == options.topOffset
        documentBottom == screenHeight - options.bottomOffset
        documentHeight == documentBottom - documentTop
        cropWidth == (screenWidth * options.widthRatio) \div 100
        cropHeight == Min((documentHeight * options.heightRatio) \div 100,
                          screenWidth \div 2)
        cropX == (screenWidth - cropWidth) \div 2
        cropY == CASE options.verticalPosition = "top"
                        -> documentTop + (documentHeight * 5) \div 100
                   [] options.verticalPosition = "center"
                        -> documentTop + (documentHeight - cropHeight) \div 2
                   [] OTHER -> documentTop + (documentHeight * 15) \div 100
    IN  Rect(cropX, cropY, cropWidth, cropHeight)

(***************************************************************************)
(* State.                                                                  *)
(*                                                                         *)
(* Live-preview screen, JS thread (CameraScreen):                          *)
(*   isReady, isAutoDetecting, isUserInteracting, detectedBox  React state *)
(*   lastDetectedBoxRef, manualBoxRef, detectionIntervalRef    refs        *)
(*   intervals     the interval timers set and not yet cleared             *)
(*   loopCleanup   the last run of the loop effect returned a cleanup      *)
(*   seen          the state as of the last render (what effects, props    *)
(*                 and closures of the rendered tree see)                  *)
(*   jsQueue       runOnJS calls posted by the UI thread, not yet run      *)
(* Live-preview screen, UI thread (AutoDetectionBox):                      *)
(*   box           boxLeft, boxTop, boxWidth, boxHeight                    *)
(*   startBox      startLeft, startTop, startWidth, startHeight            *)
(*   boxAtStart    the box as it was when the last gesture started         *)
(*   animTarget, animFields   the withSpring animations still running      *)
(*   isInteracting the isInteracting ref                                   *)
(*   gesture       the active gesture: "none", "pan", "TL","TR","BL","BR"  *)
(*   gestureCount, toggleCount, camAct   bookkeeping of the model          *)
(***************************************************************************)
VARIABLES isReady, isAutoDetecting, isUserInteracting, detectedBox,
          lastDetectedBoxRef, manualBoxRef, detectionIntervalRef, intervals,
          loopCleanup, seen, jsQueue,
          box, startBox, boxAtStart, animTarget, animFields, isInteracting,
          gesture, gestureCount, toggleCount, camAct

camJS == <<isReady, isAutoDetecting, isUserInteracting, detectedBox,
           lastDetectedBoxRef, manualBoxRef, detectionIntervalRef, intervals,
           loopCleanup, seen>>
camUI == <<box, startBox, boxAtStart, animTarget, animFields, isInteracting,
           gesture, gestureCount>>
camVars == <<camJS, camUI, jsQueue, toggleCount, camAct>>

(***************************************************************************)
(* Still-image screen (PreviewScreen), all on the JS thread:               *)
(*   cropBox, isDragging, isResizing, imageLayout, autoDetectComplete,     *)
(*   croppedUri    React state (imageLayout without its unused x and y)    *)
(*   cropBoxSet, layoutSet   setCropBox, setImageLayout were called since  *)
(*                 the last render (they store a new object every time)    *)
(*   dragStartRef, activeHandleRef, isDraggingRef, isResizingRef,          *)
(*   cropBoxRef, pendingCropRef, gestureTimeoutRef            refs         *)
(*   animationFrameRef   "null", or which callback is requested: the       *)
(*                 "gesture" one or the "update" one of updateCropBox      *)
(*   rafBox        the rectangle the "update" callback holds               *)
(*   timeouts      the safety timers set and neither fired nor cleared     *)
(*   cropTimers    the debounce timers of the crop effect, each with the   *)
(*                 cropBox and layout of the render that set it            *)
(*   cropEffectTimer   the timeoutId of the crop effect's last run         *)
(*   cropsInFlight, detections   the external crops and the density        *)
(*                 estimations awaited (bags)                              *)
(*   rendered      the state as of the last render                         *)
(*   responderLayout   the imageLayout the responders were created with    *)
(*   responder     the responder holding the touch: "none", "drag" or a    *)
(*                 handle                                                  *)
(*   rafLate       the "update" callback is of an estimation that returned *)
(*                 after a gesture had begun (bookkeeping)                 *)
(*   lastComputed  the rectangle the gesture's last move computed          *)
(*   cropInvokedFor   the crop box of the last run of cropAsync that       *)
(*                 reached the external crop, NoRect before and after a    *)
(*                 run that threw earlier                                  *)
(*   gestureEnd    how the last gesture ended: "release", "terminate" or   *)
(*                 "timeout"; "none" before and while one is active        *)
(*   pGestureCount, layoutCount   bookkeeping of the model                 *)
(***************************************************************************)
VARIABLES cropBox, cropBoxSet, isDragging, isResizing, imageLayout, layoutSet,
          autoDetectComplete, croppedUri,
          dragStartRef, activeHandleRef, isDraggingRef, isResizingRef, cropBoxRef,
          animationFrameRef, rafBox, rafLate, pendingCropRef, gestureTimeoutRef,
          timeouts, cropTimers, cropEffectTimer, cropsInFlight, detections,
          rendered, responderLayout, responder,
          pGestureCount, layoutCount, lastComputed, gestureEnd, cropInvokedFor

pState == <<cropBox, cropBoxSet, isDragging, isResizing, imageLayout, layoutSet,
            autoDetectComplete, croppedUri>>
pRefs == <<dragStartRef, activeHandleRef, isDraggingRef, isResizingRef, cropBoxRef,
           animationFrameRef, rafBox, rafLate, pendingCropRef, gestureTimeoutRef>>
pAsync == <<timeouts, cropTimers, cropEffectTimer, cropsInFlight, detections>>
pView == <<rendered, responderLayout, responder>>
prevVars == <<pState, pRefs, pAsync, pView, pGestureCount, layoutCount,
              lastComputed, gestureEnd, cropInvokedFor>>

(***************************************************************************)
(* The crop mappings as functions:                                         *)
(*   fnCall        the function applied and its arguments                  *)
(*   fnResult      its result, NoResult before it is applied               *)
(***************************************************************************)
VARIABLES fnCall, fnResult

fnVars == <<fnCall, fnResult>>

vars == <<camVars, prevVars, fnVars>>

Corners == {"TL", "TR", "BL", "BR"}
AllFields == {"x", "y", "width", "height"}
IntervalIds == 1..3

\* Cumulative translations a gesture update may report.
Translations == {<<-MaxShift, -MaxShift>>, <<20, -40>>, <<MaxShift, MaxShift>>}

(***************************************************************************)
(* CameraScreen: the detection loop.                                       *)
(***************************************************************************)
previewHeight == SCREEN_HEIGHT - previewTop - previewBottom
previewWidth == SCREEN_WIDTH

\* Mutant: the smoothed rectangle is published and the history is kept.
runEstimator_KeepsHistory(last, cur) ==
    LET newBox == detectQuestionAreaFast(previewWidth, previewHeight, DefaultOptions)
        adjustedBox == [newBox EXCEPT !.y = newBox.y + previewTop]
        smoothedBox == smoothBoxTransition(last, adjustedBox, 4, 10)
    IN  [last |-> IF last = NoRect THEN smoothedBox ELSE last, box |-> smoothedBox]

\* runDetection past the manual-box check: estimate, dead-band, smoothing.
\* The new lastDetectedBoxRef and detectedBox.
runEstimator(last, cur) ==
    LET newBox == detectQuestionAreaFast(previewWidth, previewHeight, DefaultOptions)
        adjustedBox == [newBox EXCEPT !.y = newBox.y + previewTop]
        small == /\ last # NoRect
                 /\ Abs(adjustedBox.x - last.x) < POSITION_THRESHOLD
                 /\ Abs(adjustedBox.y - last.y) < POSITION_THRESHOLD
                 /\ Abs(adjustedBox.width - last.width) < SIZE_THRESHOLD
                 /\ Abs(adjustedBox.height - last.height) < SIZE_THRESHOLD
        smoothedBox == smoothBoxTransition(last, adjustedBox, 4, 10)
    IN  IF small
        THEN [last |-> last, box |-> cur]
        ELSE [last |-> smoothedBox, box |-> smoothedBox]

\* Mutant: the manual rectangle is not consulted.
runDetection_IgnoresManual(manual, last, cur) == runEstimator(last, cur)

\* runDetection: the new lastDetectedBoxRef and detectedBox.
runDetection(manual, last, cur) ==
    IF manual # NoRect
    THEN [last |-> last, box |-> manual]
    ELSE runEstimator(last, cur)

\* Mutant: the loop is not paused while the user interacts.
LoopCondition_IgnoresInteraction == isReady /\ isAutoDetecting /\ ~isBoxLocked

\* The condition under which the loop effect starts the loop.
LoopCondition == isReady /\ isAutoDetecting /\ ~isBoxLocked /\ ~isUserInteracting

\* Mutant: the ref is reset without clearing the timer.
EffectCleanup_KeepsTimer(ref, live) == [ref |-> 0, live |-> live]

\* The interval a cleanup of the loop effect leaves: clearInterval of the ref.
EffectCleanup(ref, live) == [ref |-> 0, live |-> live \ {ref}]

CurDeps == [isReady |-> isReady, isAutoDetecting |-> isAutoDetecting,
            isUserInteracting |-> isUserInteracting, detectedBox |-> detectedBox]

\* onCameraReady.
CameraReady ==
    /\ ~isReady
    /\ isReady' = TRUE
    /\ camAct' = "ready"
    /\ UNCHANGED <<isAutoDetecting, isUserInteracting, detectedBox, lastDetectedBoxRef,
                   manualBoxRef, detectionIntervalRef, intervals, loopCleanup, seen,
                   camUI, jsQueue, toggleCount>>

\* Mutant: turning auto-detection on clears the manual rectangle only.
toggleRefs_KeepsHistory(newState, manual, last) ==
    IF newState
    THEN [manual |-> NoRect, last |-> last]
    ELSE [manual |-> manual, last |-> last]

\* The refs the toggle leaves: turning auto-detection on clears both.
toggleRefs(newState, manual, last) ==
    IF newState
    THEN [manual |-> NoRect, last |-> NoRect]
    ELSE [manual |-> manual, last |-> last]

\* The auto-detection toggle button's onPress.
ToggleAuto ==
    /\ toggleCount < MaxToggles
    /\ toggleCount' = toggleCount + 1
    /\ LET newState == ~seen.isAutoDetecting
           refs == toggleRefs(newState, manualBoxRef, lastDetectedBoxRef)
       IN  /\ isAutoDetecting' = newState
           /\ manualBoxRef' = refs.manual
           /\ lastDetectedBoxRef' = refs.last
    /\ camAct' = "toggle"
    /\ UNCHANGED <<isReady, isUserInteracting, detectedBox, detectionIntervalRef,
                   intervals, loopCleanup, seen, camUI, jsQueue>>

\* handleInteractionStart, handleInteractionEnd, handleBoxChange: the JS
\* thread runs the oldest call posted with runOnJS.
handleInteractionStart ==
    /\ isUserInteracting' = TRUE
    /\ UNCHANGED <<manualBoxRef, detectedBox>>

handleInteractionEnd ==
    /\ isUserInteracting' = FALSE
    /\ UNCHANGED <<manualBoxRef, detectedBox>>

handleBoxChange(newBox) ==
    /\ manualBoxRef' = newBox
    /\ detectedBox' = newBox
    /\ UNCHANGED isUserInteracting

RunOnJS ==
    /\ jsQueue # <<>>
    /\ LET m == Head(jsQueue)
       IN  /\ CASE m.call = "start" -> handleInteractionStart
                [] m.call = "end" -> handleInteractionEnd
                [] OTHER -> handleBoxChange(m.box)
           /\ camAct' = m.call
    /\ jsQueue' = Tail(jsQueue)
    /\ UNCHANGED <<isReady, isAutoDetecting, lastDetectedBoxRef, detectionIntervalRef,
                   intervals, loopCleanup, seen, camUI, toggleCount>>

\* An interval timer fires: runDetection.
Tick ==
    /\ \E id \in intervals :
         LET r == runDetection(manualBoxRef, lastDetectedBoxRef, detectedBox)
         IN  /\ lastDetectedBoxRef' = r.last
             /\ detectedBox' = r.box
    /\ camAct' = "tick"
    /\ UNCHANGED <<isReady, isAutoDetecting, isUserInteracting, manualBoxRef,
                   detectionIntervalRef, intervals, loopCleanup, seen, camUI, jsQueue,
                   toggleCount>>

\* React renders the changed state and runs the effects whose dependencies
\* changed: AutoDetectionBox's position effect, then CameraScreen's loop effect.
PositionEffect ==
    IF /\ (seen.detectedBox # detectedBox \/ seen.isAutoDetecting # isAutoDetecting)
       /\ detectedBox # NoRect /\ isAutoDetecting /\ ~isBoxLocked /\ ~isInteracting
    THEN /\ animTarget' = detectedBox
         /\ animFields' = AllFields
    ELSE UNCHANGED <<animTarget, animFields>>

LoopEffect ==
    IF /\ seen.isReady = isReady
       /\ seen.isAutoDetecting = isAutoDetecting
       /\ seen.isUserInteracting = isUserInteracting
    THEN UNCHANGED <<detectionIntervalRef, intervals, loopCleanup,
                     lastDetectedBoxRef, detectedBox>>
    ELSE LET c == IF loopCleanup /\ detectionIntervalRef # 0
                  THEN EffectCleanup(detectionIntervalRef, intervals)
                  ELSE [ref |-> detectionIntervalRef, live |-> intervals]
         IN  IF ~LoopCondition
             THEN /\ detectionIntervalRef' = 0
                  /\ intervals' = c.live \ {c.ref}
                  /\ loopCleanup' = FALSE
                  /\ UNCHANGED <<lastDetectedBoxRef, detectedBox>>
             ELSE LET r == runDetection(manualBoxRef, lastDetectedBoxRef, detectedBox)
                      id == CHOOSE i \in IntervalIds \ c.live :
                               \A j \in IntervalIds \ c.live : i <= j
                  IN  /\ lastDetectedBoxRef' = r.last
                      /\ detectedBox' = r.box
                      /\ detectionIntervalRef' = id
                      /\ intervals' = c.live \cup {id}
                      /\ loopCleanup' = TRUE

Render ==
    /\ seen # CurDeps
    /\ Cardinality(intervals) < Cardinality(IntervalIds)
    /\ PositionEffect
    /\ LoopEffect
    /\ seen' = CurDeps
    /\ camAct' = "render"
    /\ UNCHANGED <<isReady, isAutoDetecting, isUserInteracting, manualBoxRef,
                   box, startBox, boxAtStart, isInteracting, gesture, gestureCount, jsQueue,
                   toggleCount>>

(***************************************************************************)
(* AutoDetectionBox: gestures and animations on the UI thread.             *)
(***************************************************************************)
\* clampBox without the maximum size.
clampBox_NoMaxSize(x, y, w, h) ==
    LET clampedW == Max(MIN_BOX_SIZE, w)
        clampedH == Max(MIN_BOX_SIZE, h)
        clampedX == Max(0, Min(x, SCREEN_WIDTH - clampedW))
        clampedY == Max(0, Min(y, SCREEN_HEIGHT - clampedH))
    IN  Rect(clampedX, clampedY, clampedW, clampedH)

\* clampBox with the container of the live-preview box, the whole screen.
clampBox(x, y, w, h) ==
    LET maxWidth == (SCREEN_WIDTH * MAX_BOX_WIDTH_RATIO) \div 100
        maxHeight == (SCREEN_HEIGHT * MAX_BOX_HEIGHT_RATIO) \div 100
        clampedW == Max(MIN_BOX_SIZE, Min(w, maxWidth))
        clampedH == Max(MIN_BOX_SIZE, Min(h, maxHeight))
        clampedX == Max(0, Min(x, SCREEN_WIDTH - clampedW))
        clampedY == Max(0, Min(y, SCREEN_HEIGHT - clampedH))
    IN  Rect(clampedX, clampedY, clampedW, clampedH)

\* The component renders the box (and its gesture detectors) only then.
BoxVisible == seen.isAutoDetecting /\ seen.detectedBox # NoRect

Post(calls) == jsQueue' = jsQueue \o calls

\* panGesture.onStart
PanOnStart ==
    /\ gesture = "none" /\ BoxVisible /\ gestureCount < MaxGestures
    /\ startBox' = [startBox EXCEPT !.x = box.x, !.y = box.y]
    /\ boxAtStart' = box
    /\ Post(<<[call |-> "start", box |-> NoRect]>>)
    /\ isInteracting' = TRUE
    /\ gesture' = "pan"
    /\ gestureCount' = gestureCount + 1
    /\ UNCHANGED <<box, animTarget, animFields>>

\* The rectangle panGesture.onUpdate leaves in the shared values.
PanUpdateBox(b, s, t) ==
    LET newX == s.x + t[1]
        newY == s.y + t[2]
        clamped == clampBox(newX, newY, b.width, b.height)
    IN  [b EXCEPT !.x = clamped.x, !.y = clamped.y]

\* panGesture.onUpdate: assigning a shared value ends its animation.
PanOnUpdate ==
    /\ gesture = "pan"
    /\ \E t \in Translations : box' = PanUpdateBox(box, startBox, t)
    /\ animFields' = animFields \ {"x", "y"}
    /\ UNCHANGED <<startBox, boxAtStart, animTarget, isInteracting, gesture,
                   gestureCount, jsQueue>>

\* panGesture.onEnd and the corner gestures' onEnd.
GestureOnEnd ==
    /\ gesture # "none"
    /\ Post(<<[call |-> "end", box |-> NoRect], [call |-> "change", box |-> box]>>)
    /\ isInteracting' = FALSE
    /\ gesture' = "none"
    /\ UNCHANGED <<box, startBox, boxAtStart, animTarget, animFields, gestureCount>>

\* createCornerGesture(corner).onStart
CornerOnStart ==
    /\ gesture = "none" /\ BoxVisible /\ gestureCount < MaxGestures
    /\ startBox' = box
    /\ boxAtStart' = box
    /\ Post(<<[call |-> "start", box |-> NoRect]>>)
    /\ isInteracting' = TRUE
    /\ \E corner \in Corners : gesture' = corner
    /\ gestureCount' = gestureCount + 1
    /\ UNCHANGED <<box, animTarget, animFields>>

\* createCornerGesture whose left and top handles move the far edges.
CornerUpdateBox_MovesFarEdge(corner, s, t) ==
    clampBox(s.x, s.y, s.width + t[1], s.height + t[2])

\* The rectangle createCornerGesture(corner).onUpdate computes.
CornerUpdateBox(corner, s, t) ==
    LET newX == IF corner \in {"TL", "BL"} THEN s.x + t[1] ELSE s.x
        newY == IF corner \in {"TL", "TR"} THEN s.y + t[2] ELSE s.y
        newW == IF corner \in {"TL", "BL"} THEN s.width - t[1] ELSE s.width + t[1]
        newH == IF corner \in {"TL", "TR"} THEN s.height - t[2] ELSE s.height + t[2]
    IN  clampBox(newX, newY, newW, newH)

\* createCornerGesture(corner).onUpdate
CornerOnUpdate ==
    /\ gesture \in Corners
    /\ \E t \in Translations : box' = CornerUpdateBox(gesture, startBox, t)
    /\ animFields' = {}
    /\ UNCHANGED <<startBox, boxAtStart, animTarget, isInteracting, gesture,
                   gestureCount, jsQueue>>

\* The withSpring animations reach their target (the spring is over-damped:
\* the values move monotonically to it; the frames on the way are not modelled).
SpringStep(b, fields, to) ==
    [f \in AllFields |-> IF f \in fields THEN to[f] ELSE b[f]]

AnimFrame ==
    /\ animFields # {}
    /\ box' = SpringStep(box, animFields, animTarget)
    /\ animFields' = {}
    /\ UNCHANGED <<startBox, boxAtStart, animTarget, isInteracting, gesture, gestureCount, jsQueue>>

UIStep ==
    /\ \/ PanOnStart /\ camAct' = "onStart"
       \/ PanOnUpdate /\ camAct' = "onUpdate"
       \/ CornerOnStart /\ camAct' = "onStart"
       \/ CornerOnUpdate /\ camAct' = "onUpdate"
       \/ GestureOnEnd /\ camAct' = "onEnd"
       \/ AnimFrame /\ camAct' = "frame"
    /\ UNCHANGED <<camJS, toggleCount>>

(***************************************************************************)
(* The live-preview screen.                                                *)
(***************************************************************************)
CameraMounted ==
    /\ isReady = FALSE
    /\ isAutoDetecting = TRUE
    /\ isUserInteracting = FALSE
    /\ detectedBox = NoRect
    /\ lastDetectedBoxRef = NoRect
    /\ manualBoxRef = NoRect
    /\ detectionIntervalRef = 0
    /\ intervals = {}
    /\ loopCleanup = FALSE
    /\ seen = [isReady |-> FALSE, isAutoDetecting |-> TRUE,
               isUserInteracting |-> FALSE, detectedBox |-> NoRect]
    /\ jsQueue = <<>>
    /\ box = Rect(SCREEN_WIDTH \div 10, (SCREEN_HEIGHT * 3) \div 10,
                  (SCREEN_WIDTH * 8) \div 10, 100)
    /\ startBox = Rect(0, 0, 0, 0)
    /\ boxAtStart = Rect(0, 0, 0, 0)
    /\ animTarget = NoRect
    /\ animFields = {}
    /\ isInteracting = FALSE
    /\ gesture = "none"
    /\ gestureCount = 0
    /\ toggleCount = 0
    /\ camAct = "init"

(***************************************************************************)
(* PreviewScreen: the still-image screen.  Lengths are whole numbers: the  *)
(* window, the photo and the container sizes are chosen so that every      *)
(* fraction the screen and the density estimator compute is whole.         *)
(***************************************************************************)
containerHeightDefault == (PREVIEW_SCREEN_HEIGHT * 55) \div 100

\* params.photo; params.crop is null (CameraScreen navigates with crop: null).
Photo == [width |-> 1000, height |-> 4000]

\* The sizes onLayout may report for the image container.
Layouts == {[width |-> 500, height |-> 2000], [width |-> 600, height |-> 2000]}
NoLayout == [width |-> 0, height |-> 0]

Handles == {"TL", "TR", "BL", "BR"}
\* Cumulative (dx, dy) a move event may report.
Moves == {<<50, -20>>, <<MaxPan, MaxPan>>}
\* A gesture's translation is cumulative: the far translation is reported
\* after the near one, if the near one is reported at all.
MovesAfter(last) == IF last = NoRect THEN Moves ELSE {<<MaxPan, MaxPan>>}
\* The first layout event reports either container; a later one the narrow
\* container, the same one or a narrower one.
LayoutReports(current) ==
    IF current = NoLayout THEN Layouts ELSE {[width |-> 500, height |-> 2000]}
GestureTimerIds == 1..2
CropTimerIds == 1..2

OriginalUri == [kind |-> "original", box |-> NoRect]
CroppedUri(b) == [kind |-> "cropped", box |-> b]

getInitialCropBox ==
    LET containerWidth == PREVIEW_SCREEN_WIDTH
        containerHeight == containerHeightDefault
    IN  Rect(containerWidth \div 10, (containerHeight * 15) \div 100,
             (containerWidth * 8) \div 10,
             Min((containerHeight * 35) \div 100, (containerWidth * 4) \div 10))

clamp(val, min, max) == Max(min, Min(max, val))

\* imageLayout.width || SCREEN_WIDTH, imageLayout.height || SCREEN_HEIGHT * 0.55
containerWidthOf(layout) ==
    IF layout.width # 0 THEN layout.width ELSE PREVIEW_SCREEN_WIDTH
containerHeightOf(layout) ==
    IF layout.height # 0 THEN layout.height ELSE containerHeightDefault

\* constrainCropBox without its clamp of the position.
constrainCropBox_SizeOnly(b, layout) ==
    Rect(b.x, b.y, Min(b.width, containerWidthOf(layout)),
         Min(b.height, containerHeightOf(layout)))

constrainCropBox(b, layout) ==
    LET width == Min(b.width, containerWidthOf(layout))
        height == Min(b.height, containerHeightOf(layout))
    IN  Rect(clamp(b.x, 0, containerWidthOf(layout) - width),
             clamp(b.y, 0, containerHeightOf(layout) - height), width, height)

\* The image as resizeMode="contain" displays it in the container.
displayedImage(photo, layout) ==
    IF photo.width * layout.height > layout.width * photo.height
    THEN [width |-> layout.width,
          height |-> (layout.width * photo.height) \div photo.width,
          offsetX |-> 0,
          offsetY |-> (layout.height * photo.width - layout.width * photo.height)
                         \div (2 * photo.width)]
    ELSE [width |-> (layout.height * photo.width) \div photo.height,
          height |-> layout.height,
          offsetX |-> (layout.width * photo.height - layout.height * photo.width)
                         \div (2 * photo.height),
          offsetY |-> 0]

\* The rectangle performAutoDetection hands to updateCropBox when
\* analyzeTextDensity returns one.
adjustedRect(photo, layout) ==
    LET d == displayedImage(photo, layout)
        detectedRect == analyzeTextDensity(d.width, d.height)
    IN  Rect(detectedRect.x + d.offsetX, detectedRect.y + d.offsetY,
             detectedRect.width, detectedRect.height)

\* The rectangle performAutoDetection hands to updateCropBox, NoRect when
\* analyzeTextDensity returned null and the crop box is kept.
performAutoDetectionRect(processed, photo, layout) ==
    LET d == displayedImage(photo, layout)
        detectedRect == analyzeTextDensityResult(processed, d.width, d.height)
    IN  IF detectedRect # NoRect THEN adjustedRect(photo, layout) ELSE NoRect

\* cropAsync without its second fit into the image.
cropAsyncRect_NoSecondFit(b, photo, layout) ==
    LET wider == photo.width * layout.height > layout.width * photo.height
        num == IF wider THEN photo.width ELSE photo.height
        den == IF wider THEN layout.width ELSE layout.height
        offX2 == IF wider THEN 0
                 ELSE layout.width * photo.height - layout.height * photo.width
        offY2 == IF wider
                 THEN layout.height * photo.width - layout.width * photo.height
                 ELSE 0
        photoX == Max(0, Round(2 * b.x * num - offX2, 2 * den))
        photoY == Max(0, Round(2 * b.y * num - offY2, 2 * den))
        photoWidth == Max(1, Min(Round(b.width * num, den), photo.width - photoX))
        photoHeight == Max(1, Min(Round(b.height * num, den), photo.height - photoY))
    IN  [invoked |-> TRUE,
         rect |-> [originX |-> photoX, originY |-> photoY,
                   width |-> photoWidth, height |-> photoHeight]]

\* cropAsync up to the call of the external crop: the rectangle it computes
\* and whether it calls the crop with it (it throws instead when the
\* rectangle is invalid).  The products are computed exactly, as fractions:
\* in the wider case both scales are photo.width / layout.width, in the
\* other both are photo.height / layout.height.
cropAsyncRect(b, photo, layout) ==
    LET wider == photo.width * layout.height > layout.width * photo.height
        num == IF wider THEN photo.width ELSE photo.height
        den == IF wider THEN layout.width ELSE layout.height
        \* twice the image offset times the scale
        offX2 == IF wider THEN 0
                 ELSE layout.width * photo.height - layout.height * photo.width
        offY2 == IF wider
                 THEN layout.height * photo.width - layout.width * photo.height
                 ELSE 0
        photoX == Max(0, Round(2 * b.x * num - offX2, 2 * den))
        photoY == Max(0, Round(2 * b.y * num - offY2, 2 * den))
        photoWidth == Max(1, Min(Round(b.width * num, den), photo.width - photoX))
        photoHeight == Max(1, Min(Round(b.height * num, den), photo.height - photoY))
        exceeds == \/ photoX + photoWidth > photo.width
                   \/ photoY + photoHeight > photo.height
        width == IF exceeds THEN Min(photoWidth, photo.width - photoX - 1)
                 ELSE photoWidth
        height == IF exceeds THEN Min(photoHeight, photo.height - photoY - 1)
                  ELSE photoHeight
    IN  [invoked |-> ~(width <= 0 \/ height <= 0) /\ ~(photoX < 0 \/ photoY < 0),
         rect |-> [originX |-> photoX, originY |-> photoY,
                   width |-> width, height |-> height]]

PreviewDeps == [cropBox |-> cropBox, isDragging |-> isDragging,
                isResizing |-> isResizing, layout |-> imageLayout,
                autoDetectComplete |-> autoDetectComplete]

\* setCropBox(b)
setCropBox(b) == cropBox' = b /\ cropBoxSet' = TRUE

\* if (pendingCropRef.current) { setCropBox(pendingCropRef.current);
\*                               pendingCropRef.current = null; }
FlushPending ==
    IF pendingCropRef # NoRect
    THEN setCropBox(pendingCropRef) /\ pendingCropRef' = NoRect
    ELSE UNCHANGED <<cropBox, cropBoxSet, pendingCropRef>>

\* if (animationFrameRef.current === null) requestAnimationFrame(flush pending)
RequestGestureFrame ==
    IF animationFrameRef = "null"
    THEN animationFrameRef' = "gesture" /\ UNCHANGED <<rafBox, rafLate>>
    ELSE UNCHANGED <<animationFrameRef, rafBox, rafLate>>

\* The image container's onLayout.
OnLayout ==
    /\ layoutCount < MaxLayouts
    /\ \E l \in LayoutReports(imageLayout) :
         /\ imageLayout' = l
         /\ layoutSet' = TRUE
    /\ layoutCount' = layoutCount + 1
    /\ UNCHANGED <<cropInvokedFor,
                   gestureEnd, cropBox, cropBoxSet, isDragging, isResizing, autoDetectComplete,
                   croppedUri, pRefs, pAsync, pView, pGestureCount, lastComputed>>

\* clearTimeout of the crop effect's cleanup.
CropEffectCleanup_KeepsTimer(id, timers) == timers
CropEffectCleanup(id, timers) == {t \in timers : t.id # id}

\* React renders the changed state and runs, in the order of their
\* declaration, the effects whose dependencies changed: the re-clamp on
\* layout, the safety timeout, the cropBoxRef synchronisation, the debounced
\* crop and the detection trigger; the responders are re-created when the
\* height of the layout changed.
PreviewRender ==
    /\ rendered # PreviewDeps \/ cropBoxSet \/ layoutSet
    /\ LET old == rendered
           sizeChanged == old.layout # imageLayout
           ready == imageLayout.width > 0 /\ imageLayout.height > 0
           gesturing == isDragging \/ isResizing
           gestureChanged == old.isDragging # isDragging \/ old.isResizing # isResizing
           constrainedBox == constrainCropBox(cropBox, imageLayout)
           reclamp == sizeChanged /\ ready /\ constrainedBox # cropBox
           timeoutCleared == /\ gestureChanged
                             /\ old.isDragging \/ old.isResizing
                             /\ gestureTimeoutRef # 0
           timeouts1 == IF timeoutCleared THEN timeouts \ {gestureTimeoutRef}
                        ELSE timeouts
           timeoutSet == gestureChanged /\ gesturing
           cropDepsChanged == old.cropBox # cropBox \/ gestureChanged \/ sizeChanged
           cropTimers1 == IF cropDepsChanged /\ cropEffectTimer # 0
                          THEN CropEffectCleanup(cropEffectTimer, cropTimers)
                          ELSE cropTimers
           cropScheduled == cropDepsChanged /\ imageLayout.width # 0
                            /\ imageLayout.height # 0 /\ ~gesturing
           detectDepsChanged == \/ layoutSet \/ sizeChanged
                                \/ old.autoDetectComplete # autoDetectComplete
           detectStarted == detectDepsChanged /\ ready /\ ~autoDetectComplete
       IN  /\ IF reclamp THEN setCropBox(constrainedBox)
              ELSE cropBox' = cropBox /\ cropBoxSet' = FALSE
           /\ IF timeoutSet
              THEN \E id \in GestureTimerIds \ timeouts1 :
                     /\ \A j \in GestureTimerIds \ timeouts1 : id <= j
                     /\ timeouts' = timeouts1 \cup {id}
                     /\ gestureTimeoutRef' = id
              ELSE /\ timeouts' = timeouts1
                   /\ gestureTimeoutRef' = IF timeoutCleared THEN 0 ELSE gestureTimeoutRef
           /\ IF (cropBoxSet \/ old.cropBox # cropBox) /\ ~isDraggingRef /\ ~isResizingRef
              THEN cropBoxRef' = cropBox
              ELSE UNCHANGED cropBoxRef
           /\ IF cropScheduled
              THEN \E id \in CropTimerIds \ {t.id : t \in cropTimers1} :
                     /\ \A j \in CropTimerIds \ {t.id : t \in cropTimers1} : id <= j
                     /\ cropTimers' = cropTimers1 \cup
                            {[id |-> id, box |-> cropBox, layout |-> imageLayout]}
                     /\ cropEffectTimer' = id
              ELSE /\ cropTimers' = cropTimers1
                   /\ cropEffectTimer' = IF cropDepsChanged THEN 0 ELSE cropEffectTimer
           /\ IF detectStarted
              THEN detections' = detections (+) SetToBag({[layout |-> imageLayout]})
              ELSE UNCHANGED detections
           /\ responderLayout' = IF old.layout.height # imageLayout.height
                                 THEN imageLayout ELSE responderLayout
    /\ rendered' = PreviewDeps
    /\ layoutSet' = FALSE
    /\ UNCHANGED <<cropInvokedFor,
                   gestureEnd, isDragging, isResizing, imageLayout, autoDetectComplete, croppedUri,
                   dragStartRef, activeHandleRef, isDraggingRef, isResizingRef,
                   animationFrameRef, rafBox, rafLate, pendingCropRef,
                   cropsInFlight, responder, pGestureCount, layoutCount, lastComputed>>

\* The debounce timer of the crop effect fires: cropAsync up to its await.
CropTimerFire ==
    /\ \E t \in cropTimers :
         /\ cropTimers' = cropTimers \ {t}
         /\ LET r == cropAsyncRect(t.box, Photo, t.layout)
            IN  IF r.invoked
                THEN /\ BagCardinality(cropsInFlight) < MaxInFlight
                     /\ cropsInFlight' = cropsInFlight (+)
                            SetToBag({[box |-> t.box, rect |-> r.rect]})
                     /\ cropInvokedFor' = t.box
                     /\ UNCHANGED croppedUri
                ELSE /\ croppedUri' = OriginalUri
                     /\ cropInvokedFor' = NoRect
                     /\ UNCHANGED cropsInFlight
    /\ UNCHANGED <<gestureEnd, cropBox, cropBoxSet, isDragging, isResizing, imageLayout, layoutSet,
                   autoDetectComplete, pRefs, timeouts, cropEffectTimer, detections,
                   pView, pGestureCount, layoutCount, lastComputed>>

\* How the external crop ends: with a result, with an exception, or with no
\* result (null).
CropOutcomes == {"result", "throws", "empty"}

\* cropAsync storing the uri of whatever the crop returned.
cropAsyncUri_StoresWhatReturns(outcome, b) ==
    IF outcome = "throws" THEN OriginalUri
    ELSE IF outcome = "result" THEN CroppedUri(b) ELSE CroppedUri(NoRect)

\* The croppedUri cropAsync sets after the await: the result's, or the
\* photo's own when the crop threw or returned nothing.
cropAsyncUri(outcome, b) ==
    IF outcome = "result" THEN CroppedUri(b) ELSE OriginalUri

\* The finalPhotoUri onCapture hands to the still-image screen: the crop is
\* called only for a valid rectangle, and its failure is caught.
onCaptureUri(invoked, outcome, b) ==
    IF invoked /\ outcome = "result" THEN CroppedUri(b) ELSE OriginalUri

\* The external crop completes, with a result or with an error: the rest of
\* cropAsync.
CropDone ==
    /\ \E c \in BagToSet(cropsInFlight), outcome \in CropOutcomes :
         /\ cropsInFlight' = cropsInFlight (-) SetToBag({c})
         /\ croppedUri' = cropAsyncUri(outcome, c.box)
    /\ UNCHANGED <<cropInvokedFor,
                   gestureEnd, cropBox, cropBoxSet, isDragging, isResizing, imageLayout, layoutSet,
                   autoDetectComplete, pRefs, timeouts, cropTimers, cropEffectTimer,
                   detections, pView, pGestureCount, layoutCount, lastComputed>>

\* updateCropBox(newBox), with the constrainCropBox of the render that
\* created it.
updateCropBox(newBox, layout) ==
    /\ animationFrameRef' = "update"
    /\ rafBox' = constrainCropBox(newBox, layout)

\* analyzeTextDensity returns, a rectangle or null: the rest of
\* performAutoDetection.
DetectDone ==
    /\ \E d \in BagToSet(detections), ok \in BOOLEAN :
         /\ detections' = detections (-) SetToBag({d})
         /\ LET r == performAutoDetectionRect(ok, Photo, d.layout)
            IN  IF r # NoRect
                THEN /\ updateCropBox(r, d.layout)
                     /\ rafLate' = (pGestureCount > 0)
                ELSE UNCHANGED <<animationFrameRef, rafBox, rafLate>>
    /\ autoDetectComplete' = TRUE
    /\ UNCHANGED <<cropInvokedFor,
                   gestureEnd, cropBox, cropBoxSet, isDragging, isResizing, imageLayout, layoutSet,
                   croppedUri, dragStartRef, activeHandleRef, isDraggingRef,
                   isResizingRef, cropBoxRef, pendingCropRef, gestureTimeoutRef,
                   timeouts, cropTimers, cropEffectTimer, cropsInFlight,
                   pView, pGestureCount, layoutCount, lastComputed>>

\* The requested animation frame runs: the callback of a gesture's move
\* handler or the callback of updateCropBox.
AnimationFrame ==
    /\ animationFrameRef # "null"
    /\ IF animationFrameRef = "gesture"
       THEN FlushPending /\ UNCHANGED cropBoxRef
       ELSE /\ cropBoxRef' = rafBox
            /\ setCropBox(rafBox)
            /\ UNCHANGED pendingCropRef
    /\ animationFrameRef' = "null"
    /\ rafBox' = NoRect
    /\ rafLate' = FALSE
    /\ UNCHANGED <<cropInvokedFor,
                   gestureEnd, isDragging, isResizing, imageLayout, layoutSet, autoDetectComplete,
                   croppedUri, dragStartRef, activeHandleRef, isDraggingRef,
                   isResizingRef, gestureTimeoutRef, pAsync, pView,
                   pGestureCount, layoutCount, lastComputed>>

\* clearGestureStates leaving the active handle as it is.
clearGestureStates_KeepsHandle ==
    /\ isDraggingRef' = FALSE
    /\ isResizingRef' = FALSE
    /\ activeHandleRef' = activeHandleRef
    /\ isDragging' = FALSE
    /\ isResizing' = FALSE
    /\ FlushPending
    /\ gestureTimeoutRef' = 0

\* clearGestureStates, called by the safety timeout.
clearGestureStates ==
    /\ isDraggingRef' = FALSE
    /\ isResizingRef' = FALSE
    /\ activeHandleRef' = "null"
    /\ isDragging' = FALSE
    /\ isResizing' = FALSE
    /\ FlushPending
    /\ gestureTimeoutRef' = 0

GestureTimeoutFire ==
    /\ \E id \in timeouts :
         timeouts' = (timeouts \ {id}) \ {gestureTimeoutRef}
    /\ clearGestureStates
    /\ gestureEnd' = "timeout"
    /\ UNCHANGED <<cropInvokedFor, imageLayout, layoutSet, autoDetectComplete, croppedUri,
                   dragStartRef, cropBoxRef, animationFrameRef, rafBox, rafLate,
                   cropTimers, cropEffectTimer, cropsInFlight, detections,
                   pView, pGestureCount, layoutCount, lastComputed>>

(***************************************************************************)
(* PreviewScreen: dragResponder.                                           *)
(***************************************************************************)
dragOnPanResponderGrant ==
    /\ responder = "none"
    /\ pGestureCount < MaxPreviewGestures
    /\ ~isResizingRef
    /\ isDraggingRef' = TRUE
    /\ isDragging' = TRUE
    /\ dragStartRef' = cropBoxRef
    /\ responder' = "drag"
    /\ pGestureCount' = pGestureCount + 1
    /\ lastComputed' = NoRect
    /\ gestureEnd' = "none"
    /\ UNCHANGED <<cropInvokedFor, cropBox, cropBoxSet, isResizing, imageLayout, layoutSet,
                   autoDetectComplete, croppedUri, activeHandleRef, isResizingRef,
                   cropBoxRef, animationFrameRef, rafBox, rafLate, pendingCropRef,
                   gestureTimeoutRef, pAsync, rendered, responderLayout, layoutCount>>

dragNewBox(start, dx, dy, layout) ==
    Rect(clamp(start.x + dx, 0, containerWidthOf(layout) - start.width),
         clamp(start.y + dy, 0, containerHeightOf(layout) - start.height),
         start.width, start.height)

dragOnPanResponderMove ==
    /\ responder = "drag"
    /\ \E m \in MovesAfter(lastComputed) :
         IF isResizingRef
         THEN UNCHANGED <<cropBoxRef, pendingCropRef, animationFrameRef, rafBox,
                          rafLate, lastComputed>>
         ELSE LET newBox == dragNewBox(dragStartRef, m[1], m[2], responderLayout)
              IN  /\ cropBoxRef' = newBox
                  /\ pendingCropRef' = newBox
                  /\ lastComputed' = newBox
                  /\ RequestGestureFrame
    /\ UNCHANGED <<cropInvokedFor,
                   gestureEnd, pState, dragStartRef, activeHandleRef, isDraggingRef, isResizingRef,
                   gestureTimeoutRef, pAsync, pView, pGestureCount, layoutCount>>

dragOnPanResponderRelease ==
    /\ responder = "drag"
    /\ isDraggingRef' = FALSE
    /\ FlushPending
    /\ isDragging' = FALSE
    /\ responder' = "none"
    /\ lastComputed' = NoRect
    /\ gestureEnd' = "release"
    /\ UNCHANGED <<cropInvokedFor,
                   isResizing, imageLayout, layoutSet, autoDetectComplete, croppedUri,
                   dragStartRef, activeHandleRef, isResizingRef, cropBoxRef,
                   animationFrameRef, rafBox, rafLate, gestureTimeoutRef, pAsync,
                   rendered, responderLayout, pGestureCount, layoutCount>>

dragOnPanResponderTerminate ==
    /\ responder = "drag"
    /\ isDraggingRef' = FALSE
    /\ FlushPending
    /\ isDragging' = FALSE
    /\ responder' = "none"
    /\ lastComputed' = NoRect
    /\ gestureEnd' = "terminate"
    /\ UNCHANGED <<cropInvokedFor,
                   isResizing, imageLayout, layoutSet, autoDetectComplete, croppedUri,
                   dragStartRef, activeHandleRef, isResizingRef, cropBoxRef,
                   animationFrameRef, rafBox, rafLate, gestureTimeoutRef, pAsync,
                   rendered, responderLayout, pGestureCount, layoutCount>>

(***************************************************************************)
(* PreviewScreen: the resize responders, one for each handle.              *)
(***************************************************************************)
resizeOnPanResponderGrant ==
    /\ responder = "none"
    /\ pGestureCount < MaxPreviewGestures
    /\ ~isDraggingRef
    /\ \E handle \in Handles :
         /\ activeHandleRef' = handle
         /\ responder' = handle
    /\ isResizingRef' = TRUE
    /\ isResizing' = TRUE
    /\ dragStartRef' = cropBoxRef
    /\ pGestureCount' = pGestureCount + 1
    /\ lastComputed' = NoRect
    /\ gestureEnd' = "none"
    /\ UNCHANGED <<cropInvokedFor, cropBox, cropBoxSet, isDragging, imageLayout, layoutSet,
                   autoDetectComplete, croppedUri, isDraggingRef,
                   cropBoxRef, animationFrameRef, rafBox, rafLate, pendingCropRef,
                   gestureTimeoutRef, pAsync, rendered, responderLayout, layoutCount>>

minSize == 1

\* createResizeResponder's move with the guards of the handler removed from
\* the moved edge: the edge is clamped instead of the move being rejected.
resizeNewBox_ClampsMovedEdge(handle, start, dx, dy, layout) ==
    LET containerWidth == containerWidthOf(layout)
        containerHeight == containerHeightOf(layout)
        movesLeft == handle \in {"BL", "TL"}
        movesTop == handle \in {"TR", "TL"}
    IN  Rect(IF movesLeft THEN Max(0, start.x + dx) ELSE start.x,
             IF movesTop THEN Max(0, start.y + dy) ELSE start.y,
             IF movesLeft THEN Max(minSize, start.width - dx)
             ELSE clamp(start.width + dx, minSize, containerWidth - start.x),
             IF movesTop THEN Max(minSize, start.height - dy)
             ELSE clamp(start.height + dy, minSize, containerHeight - start.y))

resizeNewBox(handle, start, dx, dy, layout) ==
    LET containerWidth == containerWidthOf(layout)
        containerHeight == containerHeightOf(layout)
        right == clamp(start.width + dx, minSize, containerWidth - start.x)
        bottom == clamp(start.height + dy, minSize, containerHeight - start.y)
        leftOk == start.width - dx >= minSize /\ start.x + dx >= 0
        topOk == start.height - dy >= minSize /\ start.y + dy >= 0
        movesLeft == handle \in {"BL", "TL"}
        movesTop == handle \in {"TR", "TL"}
    IN  Rect(IF movesLeft /\ leftOk THEN start.x + dx ELSE start.x,
             IF movesTop /\ topOk THEN start.y + dy ELSE start.y,
             IF movesLeft THEN (IF leftOk THEN start.width - dx ELSE start.width)
             ELSE right,
             IF movesTop THEN (IF topOk THEN start.height - dy ELSE start.height)
             ELSE bottom)

resizeOnPanResponderMove ==
    /\ responder \in Handles
    /\ \E m \in MovesAfter(lastComputed) :
         IF isDraggingRef \/ ~isResizingRef \/ activeHandleRef # responder
         THEN UNCHANGED <<cropBoxRef, pendingCropRef, animationFrameRef, rafBox,
                          rafLate, lastComputed>>
         ELSE LET newBox == resizeNewBox(responder, dragStartRef, m[1], m[2],
                                         responderLayout)
              IN  /\ cropBoxRef' = newBox
                  /\ pendingCropRef' = newBox
                  /\ lastComputed' = newBox
                  /\ RequestGestureFrame
    /\ UNCHANGED <<cropInvokedFor,
                   gestureEnd, pState, dragStartRef, activeHandleRef, isDraggingRef, isResizingRef,
                   gestureTimeoutRef, pAsync, pView, pGestureCount, layoutCount>>

resizeOnPanResponderRelease ==
    /\ responder \in Handles
    /\ isResizingRef' = FALSE
    /\ activeHandleRef' = "null"
    /\ FlushPending
    /\ isResizing' = FALSE
    /\ responder' = "none"
    /\ lastComputed' = NoRect
    /\ gestureEnd' = "release"
    /\ UNCHANGED <<cropInvokedFor,
                   isDragging, imageLayout, layoutSet, autoDetectComplete, croppedUri,
                   dragStartRef, isDraggingRef, cropBoxRef,
                   animationFrameRef, rafBox, rafLate, gestureTimeoutRef, pAsync,
                   rendered, responderLayout, pGestureCount, layoutCount>>

resizeOnPanResponderTerminate ==
    /\ responder \in Handles
    /\ isResizingRef' = FALSE
    /\ activeHandleRef' = "null"
    /\ FlushPending
    /\ isResizing' = FALSE
    /\ responder' = "none"
    /\ lastComputed' = NoRect
    /\ gestureEnd' = "terminate"
    /\ UNCHANGED <<cropInvokedFor,
                   isDragging, imageLayout, layoutSet, autoDetectComplete, croppedUri,
                   dragStartRef, isDraggingRef, cropBoxRef,
                   animationFrameRef, rafBox, rafLate, gestureTimeoutRef, pAsync,
                   rendered, responderLayout, pGestureCount, layoutCount>>

(***************************************************************************)
(* The still-image screen.                                                 *)
(***************************************************************************)
PreviewMounted ==
    /\ cropBox = getInitialCropBox
    /\ cropBoxSet = FALSE
    /\ isDragging = FALSE
    /\ isResizing = FALSE
    /\ imageLayout = NoLayout
    /\ layoutSet = FALSE
    /\ autoDetectComplete = FALSE
    /\ croppedUri = OriginalUri
    /\ dragStartRef = Rect(0, 0, 0, 0)
    /\ activeHandleRef = "null"
    /\ isDraggingRef = FALSE
    /\ isResizingRef = FALSE
    /\ cropBoxRef = getInitialCropBox
    /\ animationFrameRef = "null"
    /\ rafBox = NoRect
    /\ rafLate = FALSE
    /\ pendingCropRef = NoRect
    /\ gestureTimeoutRef = 0
    /\ timeouts = {}
    /\ cropTimers = {}
    /\ cropEffectTimer = 0
    /\ cropsInFlight = EmptyBag
    /\ detections = EmptyBag
    /\ rendered = [cropBox |-> getInitialCropBox, isDragging |-> FALSE,
                   isResizing |-> FALSE, layout |-> NoLayout,
                   autoDetectComplete |-> FALSE]
    /\ responderLayout = NoLayout
    /\ responder = "none"
    /\ pGestureCount = 0
    /\ layoutCount = 0
    /\ lastComputed = NoRect
    /\ gestureEnd = "none"
    /\ cropInvokedFor = NoRect

(***************************************************************************)
(* The crop mappings as functions of their inputs.                         *)
(***************************************************************************)
NoResult == [invoked |-> FALSE, rect |-> [originX |-> 0, originY |-> 0,
                                          width |-> -1, height |-> -1]]

\* onCapture from the mapping of the box to the call of the external crop:
\* the rectangle it computes and whether it calls the crop with it.  The
\* products are computed exactly, as fractions: in the wider case both scales
\* are photo.height / SCREEN_HEIGHT, in the other photo.width / SCREEN_WIDTH.
captureCropRect(boxToUse, autoDetecting, photo) ==
    LET wider == photo.width * SCREEN_HEIGHT > SCREEN_WIDTH * photo.height
        num == IF wider THEN photo.height ELSE photo.width
        den == IF wider THEN SCREEN_HEIGHT ELSE SCREEN_WIDTH
        \* twice the offset times den
        offX2 == IF wider
                 THEN photo.width * SCREEN_HEIGHT - SCREEN_WIDTH * photo.height
                 ELSE 0
        offY2 == IF wider THEN 0
                 ELSE photo.height * SCREEN_WIDTH - SCREEN_HEIGHT * photo.width
        width0 == Round(boxToUse.width * num, den)
        height0 == Round(boxToUse.height * num, den)
        originX == Max(0, Min(Round(2 * boxToUse.x * num + offX2, 2 * den),
                              photo.width - width0))
        originY == Max(0, Min(Round(2 * boxToUse.y * num + offY2, 2 * den),
                              photo.height - height0))
        width == Min(width0, photo.width - originX)
        height == Min(height0, photo.height - originY)
    IN  IF boxToUse # NoRect /\ autoDetecting
        THEN [invoked |-> width > 0 /\ height > 0,
              rect |-> [originX |-> originX, originY |-> originY,
                        width |-> width, height |-> height]]
        ELSE NoResult

\* The arguments the functions are applied to.
CaptureXs == {0, 70, 200, SCREEN_WIDTH - 1}
CaptureYs == {0, 198, 500, SCREEN_HEIGHT - 1}
CaptureWidths == {1, MIN_BOX_SIZE, 260, SCREEN_WIDTH}
CaptureHeights == {1, 60, 328, SCREEN_HEIGHT}
CaptureBoxes ==
    {b \in [x : CaptureXs, y : CaptureYs, width : CaptureWidths, height : CaptureHeights] :
        isValidBox(b, SCREEN_WIDTH, SCREEN_HEIGHT)}
CapturePhotos ==
    {[width |-> 3000, height |-> 4000], [width |-> 4000, height |-> 3000],
     [width |-> SCREEN_WIDTH, height |-> SCREEN_HEIGHT]}
        \cup [width : 1..MaxDim, height : 1..MaxDim]

SmallBoxes == [x : 0..MaxDim, y : 0..MaxDim, width : 1..MaxDim, height : 1..MaxDim]
SmallSizes == [width : 1..MaxDim, height : 1..MaxDim]

CaptureCalls ==
    [fn : {"onCapture"}, box : CaptureBoxes \cup {NoRect}, autoDetecting : BOOLEAN,
     photo : CapturePhotos]
CropAsyncCalls ==
    [fn : {"cropAsync"}, box : SmallBoxes, photo : SmallSizes, layout : SmallSizes]

ApplyOnCapture ==
    /\ fnCall.fn = "onCapture"
    /\ fnResult = NoResult
    /\ fnResult' = captureCropRect(fnCall.box, fnCall.autoDetecting, fnCall.photo)
    /\ UNCHANGED fnCall

ApplyCropAsync ==
    /\ fnCall.fn = "cropAsync"
    /\ fnResult = NoResult
    /\ fnResult' = cropAsyncRect(fnCall.box, fnCall.photo, fnCall.layout)
    /\ UNCHANGED fnCall

FnIdle ==
    /\ fnCall = [fn |-> "none"]
    /\ fnResult = NoResult

\* onCapture taking the published rectangle even when there is a manual one.
captureBoxToUse_PrefersDetected(manual, detected) ==
    IF detected # NoRect THEN detected ELSE manual

\* manualBoxRef.current || detectedBox
captureBoxToUse(manual, detected) ==
    IF manual # NoRect THEN manual ELSE detected

\* The photo takePictureAsync returns.
CapturedPhoto == [width |-> 3000, height |-> 4000]

\* onCapture with the detectedBox and isAutoDetecting of the render that
\* created it: the photo is taken, cropped and handed to the still-image
\* screen.  fnCall and fnResult record the arguments and the rectangle of the
\* crop.  The navigator keeps the screen mounted under the still-image
\* screen: its state and refs stay as they are.
onCapture ==
    /\ isReady
    /\ LET boxToUse == captureBoxToUse(manualBoxRef, seen.detectedBox)
       IN  /\ fnCall' = [fn |-> "onCapture", box |-> boxToUse,
                         autoDetecting |-> seen.isAutoDetecting,
                         photo |-> CapturedPhoto]
           /\ \E outcome \in CropOutcomes :
                LET r == captureCropRect(boxToUse, seen.isAutoDetecting, CapturedPhoto)
                IN  fnResult' = [invoked |-> r.invoked, rect |-> r.rect,
                                 uri |-> onCaptureUri(r.invoked, outcome, boxToUse)]
    /\ camAct' = "capture"
    /\ UNCHANGED <<camJS, camUI, jsQueue, toggleCount>>

(***************************************************************************)
(* The specifications.                                                     *)
(***************************************************************************)
InitCamera == CameraMounted /\ PreviewMounted /\ FnIdle

NextCamera ==
    \/ CameraReady /\ UNCHANGED <<prevVars, fnVars>>
    \/ ToggleAuto /\ UNCHANGED <<prevVars, fnVars>>
    \/ RunOnJS /\ UNCHANGED <<prevVars, fnVars>>
    \/ Tick /\ UNCHANGED <<prevVars, fnVars>>
    \/ Render /\ UNCHANGED <<prevVars, fnVars>>
    \/ UIStep /\ UNCHANGED <<prevVars, fnVars>>
    \/ onCapture /\ UNCHANGED prevVars

SpecCamera == InitCamera /\ [][NextCamera]_vars

InitPreview == CameraMounted /\ PreviewMounted /\ FnIdle

NextPreview ==
    \/ OnLayout /\ UNCHANGED <<camVars, fnVars>>
    \/ PreviewRender /\ UNCHANGED <<camVars, fnVars>>
    \/ CropTimerFire /\ UNCHANGED <<camVars, fnVars>>
    \/ CropDone /\ UNCHANGED <<camVars, fnVars>>
    \/ DetectDone /\ UNCHANGED <<camVars, fnVars>>
    \/ AnimationFrame /\ UNCHANGED <<camVars, fnVars>>
    \/ GestureTimeoutFire /\ UNCHANGED <<camVars, fnVars>>
    \/ dragOnPanResponderGrant /\ UNCHANGED <<camVars, fnVars>>
    \/ dragOnPanResponderMove /\ UNCHANGED <<camVars, fnVars>>
    \/ dragOnPanResponderRelease /\ UNCHANGED <<camVars, fnVars>>
    \/ dragOnPanResponderTerminate /\ UNCHANGED <<camVars, fnVars>>
    \/ resizeOnPanResponderGrant /\ UNCHANGED <<camVars, fnVars>>
    \/ resizeOnPanResponderMove /\ UNCHANGED <<camVars, fnVars>>
    \/ resizeOnPanResponderRelease /\ UNCHANGED <<camVars, fnVars>>
    \/ resizeOnPanResponderTerminate /\ UNCHANGED <<camVars, fnVars>>

SpecPreview == InitPreview /\ [][NextPreview]_vars

InitCrop ==
    /\ CameraMounted
    /\ PreviewMounted
    /\ fnCall \in CaptureCalls \cup CropAsyncCalls
    /\ fnResult = NoResult

NextCrop ==
    \/ ApplyOnCapture /\ UNCHANGED <<camVars, prevVars>>
    \/ ApplyCropAsync /\ UNCHANGED <<camVars, prevVars>>

SpecCrop == InitCrop /\ [][NextCrop]_vars

(***************************************************************************)
(* Claims about the live-preview screen.                                   *)
(***************************************************************************)
InContainer(r) == isValidBox(r, SCREEN_WIDTH, SCREEN_HEIGHT)

\* C1: every rectangle committed at the end of a drag or resize gesture
\* (handleBoxChange records it as the manual rectangle and publishes it) has
\* width >= MIN_BOX_SIZE and height >= MIN_BOX_SIZE and lies inside the
\* container.
C1_CommittedRectValid ==
    manualBoxRef # NoRect =>
        /\ manualBoxRef.width >= MIN_BOX_SIZE
        /\ manualBoxRef.height >= MIN_BOX_SIZE
        /\ InContainer(manualBoxRef)

\* C2: once a gesture's rectangle is committed as the manual rectangle, the
\* published rectangle equals it and stays equal to it in every step (ticks
\* included); the manual rectangle goes away only when auto-detection is
\* toggled on, and is replaced only by the commit of a further gesture.
C2_ManualFrozen ==
    [][manualBoxRef # NoRect =>
         /\ detectedBox = manualBoxRef
         /\ \/ manualBoxRef' = manualBoxRef /\ detectedBox' = manualBoxRef
            \/ /\ camAct' = "toggle" /\ isAutoDetecting'
               /\ manualBoxRef' = NoRect /\ detectedBox' = detectedBox
            \/ camAct' = "change" /\ detectedBox' = manualBoxRef']_vars

C2_Witness == camAct = "tick" /\ manualBoxRef # NoRect /\ toggleCount > 0

\* C3: while a gesture is in progress only the gesture's own updates change
\* the box (boxLeft, boxTop, boxWidth, boxHeight): nothing driven by the
\* estimator writes it.
C3_GestureOwnsBox ==
    [][(gesture # "none" /\ camAct' # "onUpdate") => box' = box]_vars

\* C5 as claimed: when the rendered state is Idle (auto-detection off), Paused
\* (user interacting) or Manual (a manual rectangle is committed), no interval
\* is active.
LoopDepsRendered ==
    /\ seen.isReady = isReady
    /\ seen.isAutoDetecting = isAutoDetecting
    /\ seen.isUserInteracting = isUserInteracting

C6_OneInterval ==
    /\ Cardinality(intervals) <= 1
    /\ intervals = IF detectionIntervalRef = 0 THEN {} ELSE {detectionIntervalRef}

C6_Witness ==
    /\ intervals # {} /\ manualBoxRef # NoRect /\ toggleCount > 0

(***************************************************************************)
(* Claims about the still-image screen.                                    *)
(***************************************************************************)
RenderPending == rendered # PreviewDeps \/ cropBoxSet \/ layoutSet

\* Nothing is scheduled, awaited or held.
PreviewQuiescent ==
    /\ ~RenderPending
    /\ responder = "none"
    /\ animationFrameRef = "null"
    /\ timeouts = {}
    /\ cropTimers = {}
    /\ cropsInFlight = EmptyBag
    /\ detections = EmptyBag

\* C4: the result of a density estimation that returns after the user has
\* begun a manual edit is discarded: the animation frame that carries it
\* writes neither the crop rectangle nor its ref.
C4_LateEstimateDiscarded ==
    [][(animationFrameRef = "update" /\ rafLate /\ animationFrameRef' = "null")
          => (cropBox' = cropBox /\ cropBoxRef' = cropBoxRef)]_vars

\* C7: at most one debounced crop timer is pending at any time.
C7_OneCropTimer == Cardinality(cropTimers) <= 1

\* The timer of the initial rectangle has fired and its crop is displayed; a
\* gesture has ended since and the crop effect has set the timer again, for
\* the rectangle the gesture committed.
C7_Witness ==
    /\ croppedUri = CroppedUri(getInitialCropBox)
    /\ gestureEnd \in {"release", "terminate"}
    /\ \E t \in cropTimers : t.box = cropBox /\ t.box # getInitialCropBox

\* C8: when several crops were triggered, the crop displayed once everything
\* has settled is the crop of the committed rectangle, whichever crop
\* finished last.
C8_LastCommittedWins ==
    (PreviewQuiescent /\ croppedUri.kind = "cropped") => croppedUri.box = cropBox

\* C10: a step that ends a gesture, release or terminate alike, clears the
\* dragging flag, the resizing flag and the active handle, and leaves the
\* rectangle the gesture's last move computed as the committed rectangle
\* (stated for a last rectangle that lies inside the current container, which
\* the re-clamp on layout leaves alone).
C10_EndCommitsLastComputed ==
    [][(responder # "none" /\ responder' = "none")
          => /\ ~isDraggingRef' /\ ~isResizingRef' /\ ~isDragging' /\ ~isResizing'
             /\ activeHandleRef' = "null"
             /\ pendingCropRef' = NoRect
             /\ (lastComputed # NoRect
                   /\ lastComputed = constrainCropBox(lastComputed, imageLayout))
                  => cropBox' = lastComputed]_vars

(***************************************************************************)
(* Claims about the crop mappings.                                         *)
(***************************************************************************)
\* C9: whenever onCapture or cropAsync calls the external crop, the rectangle
\* is made of integers, lies inside the photo and is at least 1 wide and 1
\* high; when they compute no such rectangle they do not call the crop.
C9_CropRectValid ==
    fnResult.invoked =>
        /\ fnResult.rect \in [originX : Nat, originY : Nat, width : Nat, height : Nat]
        /\ fnResult.rect.width >= 1
        /\ fnResult.rect.height >= 1
        /\ fnResult.rect.originX + fnResult.rect.width <= fnCall.photo.width
        /\ fnResult.rect.originY + fnResult.rect.height <= fnCall.photo.height

\* cropAsync has called the crop for a rectangle that hangs over the right
\* edge of the displayed image: the rectangle was fitted into the photo.
C9_Witness ==
    /\ fnCall.fn = "cropAsync"
    /\ fnResult.invoked
    /\ fnCall.photo.width = fnCall.layout.width
    /\ fnCall.photo.height = fnCall.layout.height
    /\ fnCall.box.x + fnCall.box.width > fnCall.layout.width
    /\ fnResult.rect.originX + fnResult.rect.width = fnCall.photo.width

(***************************************************************************)
(* Claims about the safety timeout of the still-image screen.              *)
(***************************************************************************)
\* C11: when the safety timeout fires on a gesture that got neither a release
\* nor a terminate, it clears the dragging flag, the resizing flag and the
\* active handle, and leaves the rectangle the gesture's last move computed
\* as the committed rectangle (stated for a last rectangle that lies inside
\* the current container).
C11_TimeoutCommitsLastComputed ==
    [][(responder # "none" /\ gestureEnd = "none" /\ gestureEnd' = "timeout")
          => /\ ~isDraggingRef' /\ ~isResizingRef' /\ ~isDragging' /\ ~isResizing'
             /\ activeHandleRef' = "null"
             /\ pendingCropRef' = NoRect
             /\ (lastComputed # NoRect
                   /\ lastComputed = constrainCropBox(lastComputed, imageLayout))
                  => cropBox' = lastComputed]_vars

(***************************************************************************)
(* Claims about resizing by a corner handle.                               *)
(***************************************************************************)
\* The corner opposite to the handle: <<x, y>> of the rectangle's corner that
\* a resize by the handle is to leave in place.
Anchor(handle, b) ==
    <<IF handle \in {"TL", "BL"} THEN b.x + b.width ELSE b.x,
      IF handle \in {"TL", "TR"} THEN b.y + b.height ELSE b.y>>

\* C13: on the live-preview box, an update of a corner gesture, whatever the
\* corner and the cumulative translation, leaves the corner opposite to the
\* handle where it was when the gesture started.
C13_CornerKeepsAnchor ==
    [][(gesture \in Corners /\ camAct' = "onUpdate")
          => Anchor(gesture, box') = Anchor(gesture, startBox)]_vars

(***************************************************************************)
(* The geometry functions as functions of their inputs: the rectangle of a *)
(* resize move, the coordinate mappers and the fast region estimator.      *)
(***************************************************************************)
\* mapScreenRectToImage with Math.floor in the place of Math.round.
mapScreenRectToImage_Floor(rect, screenW, screenH, imageW, imageH) ==
    [originX |-> (rect.x * imageW) \div screenW,
     originY |-> (rect.y * imageH) \div screenH,
     width |-> (rect.width * imageW) \div screenW,
     height |-> (rect.height * imageH) \div screenH]

\* mapScreenRectToImage(rect, screenW, screenH, imageW, imageH); the products
\* rect.x * (imageW / screenW) are computed exactly, as fractions.
mapScreenRectToImage(rect, screenW, screenH, imageW, imageH) ==
    [originX |-> Round(rect.x * imageW, screenW),
     originY |-> Round(rect.y * imageH, screenH),
     width |-> Round(rect.width * imageW, screenW),
     height |-> Round(rect.height * imageH, screenH)]

\* mapPreviewBoxToImageCoords(previewBox, previewWidth, previewHeight,
\*                            imageWidth, imageHeight)
mapPreviewBoxToImageCoords(previewBox, pWidth, pHeight, imageWidth, imageHeight) ==
    [originX |-> Round(previewBox.x * imageWidth, pWidth),
     originY |-> Round(previewBox.y * imageHeight, pHeight),
     width |-> Round(previewBox.width * imageWidth, pWidth),
     height |-> Round(previewBox.height * imageHeight, pHeight)]

\* The mapper named fn.
mapRect(fn, r, fromW, fromH, toW, toH) ==
    IF fn = "mapScreenRectToImage"
    THEN mapScreenRectToImage(r, fromW, fromH, toW, toH)
    ELSE mapPreviewBoxToImageCoords(r, fromW, fromH, toW, toH)

\* The mapper's result read as a rectangle of the space it maps to.
AsRect(m) == Rect(m.originX, m.originY, m.width, m.height)

\* The arguments the functions are applied to.
Deltas == -MaxDelta..MaxDelta
ResizeLayouts == {[width |-> MaxDim, height |-> MaxDim], NoLayout}
ResizeCalls ==
    [fn : {"resize"}, handle : Handles, start : SmallBoxes, dx : Deltas, dy : Deltas,
     layout : ResizeLayouts]
        \cup [fn : {"resize"}, handle : Handles, start : {Rect(100, 200, 300, 150)},
               dx : {20, -30, -150, 400}, dy : {10, -20, -250, 200},
               layout : {[width |-> 1000, height |-> 2000]}]

Mappers == {"mapScreenRectToImage", "mapPreviewBoxToImageCoords"}
MapSpaces ==
    SmallSizes \cup {[width |-> SCREEN_WIDTH, height |-> SCREEN_HEIGHT],
                     [width |-> 3000, height |-> 4000]}
MapRects(a) ==
    IF a.width <= MaxDim /\ a.height <= MaxDim
    THEN {r \in SmallBoxes : isValidBox(r, a.width, a.height)}
    ELSE {r \in [x : {0, 70, 199}, y : {0, 198, 501}, width : {1, 81, 260},
                 height : {1, 61, 328}] : isValidBox(r, a.width, a.height)}
RoundTripCalls ==
    {c \in [fn : Mappers, rect : SmallBoxes \cup MapRects([width |-> SCREEN_WIDTH,
                                                            height |-> SCREEN_HEIGHT]),
            a : MapSpaces, b : MapSpaces] : c.rect \in MapRects(c.a)}

Percents == {0, 1, 10, 18, 50, 65, 99, 100}
FastSizes == (1..MaxDim) \cup {SCREEN_WIDTH, SCREEN_HEIGHT - previewTop - previewBottom, 3000}
FastCalls ==
    [fn : {"detectQuestionAreaFast"}, previewWidth : FastSizes, previewHeight : FastSizes,
     options : [verticalBias : Percents, widthRatio : Percents, heightRatio : Percents]]
        \cup [fn : {"detectQuestionAreaFast"}, previewWidth : {1000},
               previewHeight : {2000}, options : {DefaultOptions}]

ApplyResize ==
    /\ fnCall.fn = "resize"
    /\ fnResult = NoResult
    /\ fnResult' = [rect |-> resizeNewBox(fnCall.handle, fnCall.start, fnCall.dx,
                                          fnCall.dy, fnCall.layout)]
    /\ UNCHANGED fnCall

\* A rectangle is mapped from space a to space b and the result back.
ApplyRoundTrip ==
    /\ fnCall.fn \in Mappers
    /\ fnResult = NoResult
    /\ LET there == mapRect(fnCall.fn, fnCall.rect, fnCall.a.width, fnCall.a.height,
                            fnCall.b.width, fnCall.b.height)
           back == mapRect(fnCall.fn, AsRect(there), fnCall.b.width, fnCall.b.height,
                           fnCall.a.width, fnCall.a.height)
       IN  fnResult' = [there |-> AsRect(there), back |-> AsRect(back)]
    /\ UNCHANGED fnCall

\* The result is in units of 1/200 pixel.
ApplyFast ==
    /\ fnCall.fn = "detectQuestionAreaFast"
    /\ fnResult = NoResult
    /\ fnResult' = [rect200 |-> detectQuestionAreaFast200(fnCall.previewWidth,
                                    fnCall.previewHeight, fnCall.options)]
    /\ UNCHANGED fnCall

\* The completions of the external crop as functions of how it ends.
CropDoneCalls ==
    [fn : {"cropAsync done"}, outcome : CropOutcomes,
     box : {getInitialCropBox, Rect(147, 547, 156, 35)}]
        \cup [fn : {"onCapture done"}, outcome : CropOutcomes, invoked : BOOLEAN,
               box : {runEstimator(NoRect, NoRect).box, Rect(40, 246, 320, 100)}]

ApplyCropAsyncDone ==
    /\ fnCall.fn = "cropAsync done"
    /\ fnResult = NoResult
    /\ fnResult' = [uri |-> cropAsyncUri(fnCall.outcome, fnCall.box)]
    /\ UNCHANGED fnCall

ApplyOnCaptureDone ==
    /\ fnCall.fn = "onCapture done"
    /\ fnResult = NoResult
    /\ fnResult' = [uri |-> onCaptureUri(fnCall.invoked, fnCall.outcome, fnCall.box)]
    /\ UNCHANGED fnCall

\* The callers of the density estimator as functions of whether the image
\* processing succeeds.  The options of the fallback of onCapture:
FallbackOptions == [topOffset |-> 120, bottomOffset |-> 120, widthRatio |-> 85,
                    heightRatio |-> 40, verticalPosition |-> "upper-center"]

\* onCapture without its fallback.
densityCaptureCrop_NoFallback(processed) ==
    analyzeTextDensityResult(processed, SCREEN_WIDTH, SCREEN_HEIGHT)

\* The crop onCapture hands to the still-image screen when it estimates the
\* region at capture: the density estimate, or the geometric default.
densityCaptureCrop(processed) ==
    LET textDensityResult == analyzeTextDensityResult(processed, SCREEN_WIDTH,
                                                      SCREEN_HEIGHT)
    IN  IF textDensityResult # NoRect THEN textDensityResult
        ELSE detectTextArea(SCREEN_WIDTH, SCREEN_HEIGHT, FallbackOptions)

\* The crop box of the still-image screen once performAutoDetection and the
\* frame of updateCropBox have run.
autoDetectedCropBox(processed, current, photo, layout) ==
    LET r == performAutoDetectionRect(processed, photo, layout)
    IN  IF r # NoRect THEN constrainCropBox(r, layout) ELSE current

DensityCalls ==
    [fn : {"analyzeTextDensity"}, processed : BOOLEAN,
     screen : Layouts \cup {[width |-> SCREEN_WIDTH, height |-> SCREEN_HEIGHT]}]
        \cup [fn : {"performAutoDetection"}, processed : BOOLEAN,
               current : {getInitialCropBox, Rect(100, 310, 400, 200)},
               layout : Layouts]
        \cup [fn : {"onCapture density"}, processed : BOOLEAN]

ApplyAnalyzeTextDensity ==
    /\ fnCall.fn = "analyzeTextDensity"
    /\ fnResult = NoResult
    /\ fnResult' = [rect |-> analyzeTextDensityResult(fnCall.processed,
                                 fnCall.screen.width, fnCall.screen.height)]
    /\ UNCHANGED fnCall

ApplyPerformAutoDetection ==
    /\ fnCall.fn = "performAutoDetection"
    /\ fnResult = NoResult
    /\ fnResult' = [rect |-> autoDetectedCropBox(fnCall.processed, fnCall.current,
                                                 Photo, fnCall.layout)]
    /\ UNCHANGED fnCall

ApplyDensityCapture ==
    /\ fnCall.fn = "onCapture density"
    /\ fnResult = NoResult
    /\ fnResult' = [rect |-> densityCaptureCrop(fnCall.processed)]
    /\ UNCHANGED fnCall

\* Grids for the boundary scans: the one the estimator builds, one with
\* nothing above the threshold, and one with a short band of rows and columns.
RowPatterns ==
    {[row \in 0..(gridRows - 1) |-> rowAbove(row)],
     [row \in 0..(gridRows - 1) |-> FALSE],
     [row \in 0..(gridRows - 1) |-> row \in {8, 9}]}
ColPatterns ==
    {[col \in 0..(gridCols - 1) |-> colAbove(col)],
     [col \in 0..(gridCols - 1) |-> FALSE],
     [col \in 0..(gridCols - 1) |-> col \in 12..16]}
ScanCalls ==
    [fn : {"density scan"}, rowsAbove : RowPatterns, colsAbove : ColPatterns,
     screen : Layouts]

ApplyDensityScan ==
    /\ fnCall.fn = "density scan"
    /\ fnResult = NoResult
    /\ fnResult' = [rect |-> densityScanRect(fnCall.rowsAbove, fnCall.colsAbove,
                                             fnCall.screen.width, fnCall.screen.height)]
    /\ UNCHANGED fnCall

\* The rectangle smoother in the arithmetic of the language: every sum,
\* difference and product is rounded to the nearest number with MantissaBits
\* significant bits, ties to the even one (a JavaScript number has 53).
RECURSIVE Pow2(_)
Pow2(n) == IF n = 0 THEN 1 ELSE 2 * Pow2(n - 1)

RECURSIVE RoundStep(_, _)
\* The spacing of the representable numbers around v >= 0.
RoundStep(v, step) ==
    IF v < step * Pow2(MantissaBits) THEN step ELSE RoundStep(v, 2 * step)

RoundToBits(v) ==
    LET a == Abs(v)
        step == RoundStep(a, 1)
        q == a \div step
        r == a % step
        up == 2 * r > step \/ (2 * r = step /\ q % 2 = 1)
        m == IF up THEN (q + 1) * step ELSE q * step
    IN  IF v < 0 THEN -m ELSE m

\* currentBox.f + (newBox.f - currentBox.f) * smoothingFactor
smoothField(cur, new, smoothingFactor) ==
    RoundToBits(cur + RoundToBits(RoundToBits(new - cur) * smoothingFactor))

\* The smoother with the roles of the two rectangles exchanged.
smoothBoxTransitionRounded_Swapped(currentBox, newBox, smoothingFactor) ==
    IF currentBox = NoRect
    THEN newBox
    ELSE Rect(smoothField(newBox.x, currentBox.x, smoothingFactor),
              smoothField(newBox.y, currentBox.y, smoothingFactor),
              smoothField(newBox.width, currentBox.width, smoothingFactor),
              smoothField(newBox.height, currentBox.height, smoothingFactor))

smoothBoxTransitionRounded(currentBox, newBox, smoothingFactor) ==
    IF currentBox = NoRect
    THEN newBox
    ELSE Rect(smoothField(currentBox.x, newBox.x, smoothingFactor),
              smoothField(currentBox.y, newBox.y, smoothingFactor),
              smoothField(currentBox.width, newBox.width, smoothingFactor),
              smoothField(currentBox.height, newBox.height, smoothingFactor))

\* Representable numbers, the largest one four times the first power of two
\* that needs rounding; the factors 0 and 1 are exact in any precision.
SmoothValues == {v \in 0..(4 * Pow2(MantissaBits)) : RoundToBits(v) = v}
SmoothRects ==
    [x : SmoothValues, y : {0, Pow2(MantissaBits) + 2},
     width : {1, 2 * Pow2(MantissaBits)}, height : {1}]
SmoothCalls ==
    [fn : {"smoothBoxTransition"}, currentBox : SmoothRects \cup {NoRect},
     newBox : SmoothRects, smoothingFactor : {0, 1}]

ApplySmooth ==
    /\ fnCall.fn = "smoothBoxTransition"
    /\ fnResult = NoResult
    /\ fnResult' = [rect |-> smoothBoxTransitionRounded(fnCall.currentBox,
                                  fnCall.newBox, fnCall.smoothingFactor)]
    /\ UNCHANGED fnCall

\* The corner gestures of the live-preview box as functions of the values
\* recorded at gesture start and of the cumulative translation.
CornerStarts ==
    {Rect(SCREEN_WIDTH \div 10, (SCREEN_HEIGHT * 3) \div 10, (SCREEN_WIDTH * 8) \div 10, 100),
     Rect(100, 200, 300, 150), Rect(70, 198, 260, 60)}
CornerTranslations ==
    {<<20, 10>>, <<-30, -20>>, <<-90, -190>>, <<250, 90>>, <<0, 0>>} \cup Translations
CornerCalls ==
    [fn : {"createCornerGesture"}, corner : Corners, start : CornerStarts,
     t : CornerTranslations]

ApplyCorner ==
    /\ fnCall.fn = "createCornerGesture"
    /\ fnResult = NoResult
    /\ fnResult' = [rect |-> CornerUpdateBox(fnCall.corner, fnCall.start, fnCall.t)]
    /\ UNCHANGED fnCall

\* Two successive move events of one resize gesture on the still-image
\* screen, each with its cumulative translation.
ResizeTwiceCalls ==
    [fn : {"resize twice"}, handle : Handles, start : {Rect(100, 200, 300, 150)},
     first : {<<0, 0>>, <<20, 10>>},
     second : {<<20, 10>>, <<-30, -20>>, <<400, 10>>, <<20, 200>>, <<-150, 10>>,
               <<20, -250>>, <<900, 10>>, <<20, 1900>>},
     layout : {[width |-> 1000, height |-> 2000]}]

ApplyResizeTwice ==
    /\ fnCall.fn = "resize twice"
    /\ fnResult = NoResult
    /\ fnResult' = [before |-> resizeNewBox(fnCall.handle, fnCall.start, fnCall.first[1],
                                            fnCall.first[2], fnCall.layout),
                    rect |-> resizeNewBox(fnCall.handle, fnCall.start, fnCall.second[1],
                                          fnCall.second[2], fnCall.layout)]
    /\ UNCHANGED fnCall

\* The density estimator as a function of the image as well.  An image is
\* told from another of the same size by the grid rows in which it shows
\* text.
TextRows == {{}, 11..14, {8, 9}}
Images == [textRows : TextRows]

\* The estimator scanning the rows in which the image shows text.
analyzeTextDensityOf_ReadsImage(image, screenWidth, screenHeight) ==
    densityScanRect([row \in 0..(gridRows - 1) |-> row \in image.textRows],
                    [col \in 0..(gridCols - 1) |-> colAbove(col)],
                    screenWidth, screenHeight)

\* analyzeTextDensity(imageUri, ...) when the image processing succeeds: the
\* processed image is not read, and the density map is built from the grid
\* positions alone.
analyzeTextDensityOf(image, screenWidth, screenHeight) ==
    analyzeTextDensity(screenWidth, screenHeight)

ImagePairCalls ==
    [fn : {"analyzeTextDensity pair"}, first : Images, second : Images,
     screen : Layouts \cup {[width |-> SCREEN_WIDTH, height |-> SCREEN_HEIGHT]}]

ApplyAnalyzeTextDensityPair ==
    /\ fnCall.fn = "analyzeTextDensity pair"
    /\ fnResult = NoResult
    /\ fnResult' = [first |-> analyzeTextDensityOf(fnCall.first, fnCall.screen.width,
                                                   fnCall.screen.height),
                    second |-> analyzeTextDensityOf(fnCall.second, fnCall.screen.width,
                                                    fnCall.screen.height)]
    /\ UNCHANGED fnCall

InitGeometry ==
    /\ CameraMounted
    /\ PreviewMounted
    /\ fnCall \in ResizeCalls \cup RoundTripCalls \cup FastCalls \cup CropDoneCalls
                 \cup DensityCalls \cup ScanCalls \cup SmoothCalls \cup CornerCalls
                 \cup ResizeTwiceCalls \cup ImagePairCalls
    /\ fnResult = NoResult

NextGeometry ==
    \/ ApplyResize /\ UNCHANGED <<camVars, prevVars>>
    \/ ApplyRoundTrip /\ UNCHANGED <<camVars, prevVars>>
    \/ ApplyFast /\ UNCHANGED <<camVars, prevVars>>
    \/ ApplyCropAsyncDone /\ UNCHANGED <<camVars, prevVars>>
    \/ ApplyOnCaptureDone /\ UNCHANGED <<camVars, prevVars>>
    \/ ApplyAnalyzeTextDensity /\ UNCHANGED <<camVars, prevVars>>
    \/ ApplyPerformAutoDetection /\ UNCHANGED <<camVars, prevVars>>
    \/ ApplyDensityCapture /\ UNCHANGED <<camVars, prevVars>>
    \/ ApplyDensityScan /\ UNCHANGED <<camVars, prevVars>>
    \/ ApplySmooth /\ UNCHANGED <<camVars, prevVars>>
    \/ ApplyCorner /\ UNCHANGED <<camVars, prevVars>>
    \/ ApplyResizeTwice /\ UNCHANGED <<camVars, prevVars>>
    \/ ApplyAnalyzeTextDensityPair /\ UNCHANGED <<camVars, prevVars>>

SpecGeometry == InitGeometry /\ [][NextGeometry]_vars

FieldsWithin(r, s, d) ==
    /\ Abs(r.x - s.x) <= d
    /\ Abs(r.y - s.y) <= d
    /\ Abs(r.width - s.width) <= d
    /\ Abs(r.height - s.height) <= d

\* C14 as stated: for all positive dimensions of the spaces A and B and every
\* rectangle inside A, mapping it from A to B and the result back from B to A
\* gives a rectangle whose fields differ from the original's by at most 1.
C14_RoundTripWithinOne ==
    (fnCall.fn \in Mappers /\ fnResult # NoResult)
        => FieldsWithin(fnResult.back, fnCall.rect, 1)

\* C14, amended: when B is at least as wide and as high as A, mapping a
\* rectangle with whole fields inside A from A to B and the result back
\* gives the rectangle itself.
C14_RoundTripExactWhenUpscaling ==
    (/\ fnCall.fn \in Mappers /\ fnResult # NoResult
     /\ fnCall.b.width >= fnCall.a.width
     /\ fnCall.b.height >= fnCall.a.height)
        => fnResult.back = fnCall.rect

\* A round trip through a larger space whose scales are not whole numbers:
\* the rectangle in B has other coordinates and a rounded width, and the
\* way back restores the original.
C14_Witness ==
    /\ fnCall.fn \in Mappers /\ fnResult # NoResult
    /\ fnCall.a = [width |-> 3, height |-> 3]
    /\ fnCall.b = [width |-> 4, height |-> 4]
    /\ fnCall.rect = Rect(1, 1, 2, 2)
    /\ fnResult.there = Rect(1, 1, 3, 3)
    /\ fnResult.back = fnCall.rect

\* C15: for every positive container width and height, the small ones
\* included, and every verticalBias, widthRatio and heightRatio in [0,1], the
\* fast estimator returns a rectangle with x >= 0, y >= 0,
\* x + width <= containerW and y + height <= containerH (lengths in units of
\* 1/200 pixel).
C15_FastEstimateInside ==
    (fnCall.fn = "detectQuestionAreaFast" /\ fnResult # NoResult)
        => /\ fnResult.rect200.x >= 0
           /\ fnResult.rect200.y >= 0
           /\ fnResult.rect200.x + fnResult.rect200.width <= 200 * fnCall.previewWidth
           /\ fnResult.rect200.y + fnResult.rect200.height <= 200 * fnCall.previewHeight

\* A container 1 wide and 1 high with verticalBias 0: the box is centred
\* above the top edge and the estimator moves it down to y = 0.
C15_Witness ==
    /\ fnCall.fn = "detectQuestionAreaFast" /\ fnResult # NoResult
    /\ fnCall.previewWidth = 1 /\ fnCall.previewHeight = 1
    /\ fnCall.options.verticalBias = 0
    /\ fnCall.options.heightRatio = 50
    /\ fnResult.rect200.y = 0
    /\ fnResult.rect200.height = 100

(***************************************************************************)
(* Claims about the auto-detection toggle.                                 *)
(***************************************************************************)
\* What the estimator publishes when it has no history.
FreshEstimate == runEstimator(NoRect, NoRect).box

\* Auto-detection has been toggled on and the screen has not rendered since.
ReEnabled == isAutoDetecting /\ ~seen.isAutoDetecting

\* C16: toggling auto-detection on clears the manual rectangle and the
\* estimator's history; a manual rectangle is cleared by nothing but that
\* toggle; and the first run of the estimator after re-enabling (the render
\* that restarts the loop, no gesture having committed a rectangle since the
\* toggle) publishes the estimator's output as it is, whatever the rectangle
\* before the toggle was.
C16_ToggleOnRestartsTracking ==
    [][/\ (camAct' = "toggle" /\ isAutoDetecting')
            => (manualBoxRef' = NoRect /\ lastDetectedBoxRef' = NoRect)
       /\ (manualBoxRef # NoRect /\ manualBoxRef' = NoRect)
            => (camAct' = "toggle" /\ isAutoDetecting')
       /\ (ReEnabled /\ manualBoxRef = NoRect /\ camAct' = "render" /\ LoopCondition)
            => (detectedBox' = FreshEstimate /\ lastDetectedBoxRef' = FreshEstimate)]_vars

\* Auto-detection was turned off and on again after a gesture had committed
\* a manual rectangle: the loop runs again, the manual rectangle is gone and
\* the fresh estimate is published.
C16_Witness ==
    /\ toggleCount = 2 /\ isAutoDetecting /\ seen.isAutoDetecting
    /\ gestureCount = 1 /\ gesture = "none" /\ jsQueue = <<>>
    /\ manualBoxRef = NoRect
    /\ detectedBox = FreshEstimate
    /\ lastDetectedBoxRef = FreshEstimate
    /\ intervals # {}

(***************************************************************************)
(* Claims about the container of the still-image screen.                   *)
(***************************************************************************)
\* The rectangle lies inside the container the layout reports.
InLayout(r, layout) ==
    /\ r.x >= 0
    /\ r.y >= 0
    /\ r.x + r.width <= layout.width
    /\ r.y + r.height <= layout.height

\* C17: the render that takes in new dimensions of the container leaves the
\* crop rectangle inside the new container: x >= 0, y >= 0,
\* x + width <= containerW, y + height <= containerH.
C17_LayoutChangeReclamps ==
    [][(/\ rendered.layout # imageLayout
        /\ rendered'.layout = imageLayout
        /\ imageLayout.width > 0 /\ imageLayout.height > 0)
          => InLayout(cropBox', imageLayout)]_vars

\* The container has shrunk under a rectangle that reached beyond its new
\* right edge, and the render has moved the rectangle back inside.
C17_Witness ==
    /\ rendered.layout = imageLayout
    /\ imageLayout = [width |-> 500, height |-> 2000]
    /\ rendered.cropBox.x + rendered.cropBox.width > imageLayout.width
    /\ cropBoxSet
    /\ cropBox = constrainCropBox(rendered.cropBox, imageLayout)
    /\ InLayout(cropBox, imageLayout)

(***************************************************************************)
(* Claims about capture sessions.                                          *)
(***************************************************************************)
\* C18: no rectangle state is carried from one capture to the next: when a
\* photo has been captured, the live-preview screen is left with no manual
\* rectangle and no estimator history for the next capture to start from.
C18_CaptureLeavesNoRectangle ==
    [][camAct' = "capture"
          => (manualBoxRef' = NoRect /\ lastDetectedBoxRef' = NoRect)]_vars

(***************************************************************************)
(* Claims about failures of the external operations.                       *)
(***************************************************************************)
\* C19: when the external crop throws or returns no result, the image the
\* still-image screen displays (cropAsync) and the image the live-preview
\* screen forwards (onCapture) is the original photo.
C19_CropFailureFallsBack ==
    (/\ fnCall.fn \in {"cropAsync done", "onCapture done"}
     /\ fnResult # NoResult
     /\ fnCall.outcome # "result")
        => fnResult.uri = OriginalUri

\* onCapture called the crop, the crop returned nothing, and the photo is
\* forwarded as it was taken.
C19_Witness ==
    /\ fnCall.fn = "onCapture done"
    /\ fnResult # NoResult
    /\ fnCall.invoked
    /\ fnCall.outcome = "empty"
    /\ fnResult.uri = OriginalUri

\* C20: when the image processing fails the density estimator returns null,
\* and its callers end with a rectangle all the same: performAutoDetection
\* keeps the crop box it had, onCapture takes the geometric default, which
\* lies inside the screen; the rectangle is never null.
C20_NullEstimateFallsBack ==
    (fnResult # NoResult /\ fnCall.fn \in {"analyzeTextDensity", "performAutoDetection",
                                           "onCapture density"}
        /\ ~fnCall.processed)
        => CASE fnCall.fn = "analyzeTextDensity" -> fnResult.rect = NoRect
             [] fnCall.fn = "performAutoDetection"
                  -> fnResult.rect # NoRect /\ fnResult.rect = fnCall.current
             [] OTHER
                  -> /\ fnResult.rect # NoRect
                     /\ fnResult.rect = detectTextArea(SCREEN_WIDTH, SCREEN_HEIGHT,
                                                       FallbackOptions)
                     /\ isValidBox(fnResult.rect, SCREEN_WIDTH, SCREEN_HEIGHT)

\* The image processing failed at capture and onCapture hands the geometric
\* default of the 400 by 820 screen to the still-image screen.
C20_Witness ==
    /\ fnCall.fn = "onCapture density"
    /\ ~fnCall.processed
    /\ fnResult # NoResult
    /\ fnResult.rect = Rect(30, 207, 340, 200)

(***************************************************************************)
(* The density estimator on an empty grid.                                 *)
(***************************************************************************)
NothingAbove(above) == \A i \in DOMAIN above : ~above[i]

Smoothed == fnCall.fn = "smoothBoxTransition" /\ fnResult # NoResult

\* The fields of both rectangles are whole numbers small enough for every
\* difference of two of them to be representable.
ExactFields(r) ==
    r = NoRect \/ \A f \in AllFields : r[f] < Pow2(MantissaBits)

FastDefault ==
    /\ fnCall.fn = "detectQuestionAreaFast"
    /\ fnResult # NoResult
    /\ fnCall.options = DefaultOptions

\* C23: with the default configuration the fast estimator returns width =
\* 0.65 of the container width, height = min(0.10 of the container height,
\* 100), x centred horizontally, and y = 0.18 of the container height minus
\* half the height whenever that value is inside the container; for a 1000 by
\* 2000 container it returns width 650, height 100, x 175, y 310.  (Lengths
\* in units of 1/200 pixel.)
C23_FastDefaultEstimate ==
    FastDefault =>
        LET W == fnCall.previewWidth
            H == fnCall.previewHeight
            r == fnResult.rect200
            y == 36 * H - r.height \div 2
        IN  /\ r.width = 130 * W
            /\ r.height = Min(20 * H, 200 * 100)
            /\ 2 * r.x + r.width = 200 * W
            /\ (y >= 0 /\ y + r.height <= 200 * H) => r.y = y
            /\ (W = 1000 /\ H = 2000)
                  => /\ r = Rect(200 * 175, 200 * 310, 200 * 650, 200 * 100)
                     /\ detectQuestionAreaFast(W, H, fnCall.options)
                          = Rect(175, 310, 650, 100)

\* The default estimate for the 1000 by 2000 container, where the height is
\* capped at 100.
C23_Witness ==
    /\ FastDefault
    /\ fnCall.previewWidth = 1000 /\ fnCall.previewHeight = 2000
    /\ fnResult.rect200.height = 200 * 100
    /\ fnResult.rect200.y = 200 * 310

(***************************************************************************)
(* Drag updates of the live-preview box.                                   *)
(***************************************************************************)
\* C24: every drag update leaves the rectangle at the position it had at
\* gesture start plus the cumulative translation of the update, clamped on
\* each axis so that the rectangle stays inside the container, and with the
\* width and height it had at gesture start; the result depends on the last
\* cumulative translation only.
C24_DragIsStartPlusTranslation ==
    [][(gesture = "pan" /\ camAct' = "onUpdate")
          => /\ box'.width = boxAtStart.width
             /\ box'.height = boxAtStart.height
             /\ \E t \in Translations :
                  /\ box'.x = clamp(boxAtStart.x + t[1], 0, SCREEN_WIDTH - box'.width)
                  /\ box'.y = clamp(boxAtStart.y + t[2], 0,
                                    SCREEN_HEIGHT - box'.height)]_vars

(***************************************************************************)
(* A resize through the top-left handle.                                   *)
(***************************************************************************)
\* The rectangle a top-left resize asks for.
TopLeftCandidate(start, dx, dy) ==
    Rect(start.x + dx, start.y + dy, start.width - dx, start.height - dy)

\* The candidate respects every limit the live-preview box enforces.
WithinLiveLimits(r) ==
    /\ InContainer(r)
    /\ r.width >= MIN_BOX_SIZE /\ r.height >= MIN_BOX_SIZE
    /\ 100 * r.width <= SCREEN_WIDTH * MAX_BOX_WIDTH_RATIO
    /\ 100 * r.height <= SCREEN_HEIGHT * MAX_BOX_HEIGHT_RATIO

\* C25: a resize through the top-left handle whose cumulative translation
\* (dx, dy) keeps the rectangle within bounds and not below the minimum size
\* yields x = startX + dx, y = startY + dy, width = startWidth - dx, height =
\* startHeight - dy, on the still-image screen and on the live-preview box.
C25_TopLeftResize ==
    /\ (fnCall.fn = "resize" /\ fnResult # NoResult /\ fnCall.handle = "TL")
          => LET c == TopLeftCandidate(fnCall.start, fnCall.dx, fnCall.dy)
             IN  (c.x >= 0 /\ c.y >= 0 /\ c.width >= minSize /\ c.height >= minSize
                    /\ c.x + c.width <= containerWidthOf(fnCall.layout)
                    /\ c.y + c.height <= containerHeightOf(fnCall.layout))
                     => fnResult.rect = c
    /\ (fnCall.fn = "createCornerGesture" /\ fnResult # NoResult /\ fnCall.corner = "TL")
          => LET c == TopLeftCandidate(fnCall.start, fnCall.t[1], fnCall.t[2])
             IN  WithinLiveLimits(c) => fnResult.rect = c

\* The example on the still-image screen: {100,200,300,150} with (20,10) in a
\* 1000 by 2000 container.
C25_Witness ==
    /\ fnCall.fn = "resize" /\ fnCall.handle = "TL"
    /\ fnCall.start = Rect(100, 200, 300, 150)
    /\ fnCall.dx = 20 /\ fnCall.dy = 10
    /\ fnResult # NoResult
    /\ fnResult.rect = Rect(120, 210, 280, 140)

(***************************************************************************)
(* Acceptance of a resize, axis by axis.                                   *)
(***************************************************************************)
\* What a move asks for on one axis: the position and the length of the
\* rectangle when the handle moves the near edge (left, top) or the far one.
AxisCandidate(movesNear, pos, len, d) ==
    IF movesNear THEN [pos |-> pos + d, len |-> len - d]
    ELSE [pos |-> pos, len |-> len + d]

\* The candidate neither inverts the rectangle nor leaves the container.
AxisValid(c, limit) == c.len >= minSize /\ c.pos >= 0 /\ c.pos + c.len <= limit

\* C26: acceptance of a resize is per axis: an axis on which the update
\* would invert the rectangle or push an edge out of the container is
\* rejected, its position and size being what they were before the update,
\* and an axis on which the update is valid is applied.
C26_ResizePerAxis ==
    (fnCall.fn = "resize twice" /\ fnResult # NoResult)
        => LET h == fnCall.handle
               s == fnCall.start
               cx == AxisCandidate(h \in {"TL", "BL"}, s.x, s.width, fnCall.second[1])
               cy == AxisCandidate(h \in {"TL", "TR"}, s.y, s.height, fnCall.second[2])
               b == fnResult.before
               r == fnResult.rect
           IN  /\ IF AxisValid(cx, containerWidthOf(fnCall.layout))
                  THEN r.x = cx.pos /\ r.width = cx.len
                  ELSE r.x = b.x /\ r.width = b.width
               /\ IF AxisValid(cy, containerHeightOf(fnCall.layout))
                  THEN r.y = cy.pos /\ r.height = cy.len
                  ELSE r.y = b.y /\ r.height = b.height

(***************************************************************************)
(* The size of the live-preview box after a resize.                        *)
(***************************************************************************)
\* C27: after every resize update of the live-preview box its width is at
\* least the minimum box size and at most 95% of the container width, and
\* its height at least the minimum box size and at most 40% of the container
\* height.
C27_ResizeSizeLimits ==
    [][(gesture \in Corners /\ camAct' = "onUpdate")
          => /\ box'.width >= MIN_BOX_SIZE
             /\ 100 * box'.width <= SCREEN_WIDTH * MAX_BOX_WIDTH_RATIO
             /\ box'.height >= MIN_BOX_SIZE
             /\ 100 * box'.height <= SCREEN_HEIGHT * MAX_BOX_HEIGHT_RATIO]_vars

\* A resize update asked for more than the maximum and the box has exactly
\* the maximum size.
C27_Witness ==
    /\ gesture \in Corners /\ camAct = "onUpdate"
    /\ 100 * box.width = SCREEN_WIDTH * MAX_BOX_WIDTH_RATIO
    /\ 100 * box.height = SCREEN_HEIGHT * MAX_BOX_HEIGHT_RATIO

(***************************************************************************)
(* Capture after a manual adjustment.                                      *)
(***************************************************************************)
\* C28: when a photo is captured with auto-detection enabled (and rendered
\* as enabled) after the user has committed a manual adjustment, the crop
\* rectangle is computed from the manual rectangle, not from the estimator's
\* rectangle.
C28_CaptureUsesManualBox ==
    [][(camAct' = "capture" /\ isAutoDetecting /\ seen.isAutoDetecting
            /\ manualBoxRef # NoRect)
          => /\ fnCall'.box = manualBoxRef
             /\ fnResult'.invoked
             /\ fnResult'.rect
                  = captureCropRect(manualBoxRef, TRUE, CapturedPhoto).rect]_vars

\* A capture with a manual rectangle that differs from the estimate and from
\* the rectangle of the last render.
C28_Witness ==
    /\ camAct = "capture"
    /\ isAutoDetecting /\ seen.isAutoDetecting
    /\ manualBoxRef # NoRect
    /\ manualBoxRef # FreshEstimate
    /\ manualBoxRef # seen.detectedBox
    /\ fnCall.box = manualBoxRef

(***************************************************************************)
(* Every committed rectangle is cropped.                                   *)
(***************************************************************************)
\* C29: once the container layout is known, when the rectangle has changed
\* and nothing further is pending (no render, gesture, frame, timer or crop),
\* the debounce timer has fired and the last crop was invoked for exactly the
\* current rectangle.
C29_SettledRectIsCropped ==
    (PreviewQuiescent /\ imageLayout.width > 0 /\ imageLayout.height > 0)
        => cropInvokedFor = cropBox

(***************************************************************************)
(* Resize updates of the still-image screen stay inside the container.     *)
(***************************************************************************)
\* C30: on the still-image screen, with the layout known and rendered, a
\* resize update through any corner handle that starts from a rectangle
\* inside the container, at least 1 wide and 1 high, computes a rectangle
\* that is at least 1 wide and 1 high and lies inside the container.
C30_ResizeStaysInside ==
    [][(/\ responder \in Handles
        /\ lastComputed' # lastComputed /\ lastComputed' # NoRect
        /\ ~RenderPending
        /\ imageLayout.width > 0 /\ imageLayout.height > 0
        /\ dragStartRef.width >= 1 /\ dragStartRef.height >= 1
        /\ InLayout(dragStartRef, imageLayout))
          => /\ lastComputed'.width >= 1 /\ lastComputed'.height >= 1
             /\ InLayout(lastComputed', imageLayout)]_vars

(***************************************************************************)
(* Gesture updates after a change of the container layout.                 *)
(***************************************************************************)
\* C31: once a change of the container layout has been rendered (also one
\* that changes the width alone), every drag or resize update computes its
\* rectangle by clamping against the current container width and height,
\* not against the dimensions of an earlier layout.
C31_UpdatesClampAgainstCurrentLayout ==
    [][(/\ responder # "none"
        /\ lastComputed' # lastComputed /\ lastComputed' # NoRect
        /\ ~RenderPending)
          => \E m \in Moves :
               lastComputed' =
                   IF responder = "drag"
                   THEN dragNewBox(dragStartRef, m[1], m[2], imageLayout)
                   ELSE resizeNewBox(responder, dragStartRef, m[1], m[2],
                                     imageLayout)]_vars

(***************************************************************************)
(* The live-preview screen with its scheduling: the JS thread runs every   *)
(* call posted with runOnJS, React renders every state change, a set       *)
(* interval keeps firing and the UI thread runs the frames of a running    *)
(* animation.  What the user and the gesture system do (touches, the end   *)
(* of a gesture, the buttons) is not bound to happen.                      *)
(***************************************************************************)
CameraScheduling ==
    /\ WF_vars(RunOnJS /\ UNCHANGED <<prevVars, fnVars>>)
    /\ WF_vars(Render /\ UNCHANGED <<prevVars, fnVars>>)
    /\ WF_vars(Tick /\ UNCHANGED <<prevVars, fnVars>>)
    /\ WF_vars(AnimFrame /\ camAct' = "frame"
                   /\ UNCHANGED <<camJS, toggleCount, prevVars, fnVars>>)

SpecCameraFair == SpecCamera /\ CameraScheduling

\* C32: on the live-preview screen the user-interacting flag, once set by
\* the start of a gesture, is eventually cleared, also when the end of the
\* gesture is never delivered.
C32_InteractingEventuallyCleared ==
    isUserInteracting ~> ~isUserInteracting

(***************************************************************************)
(* The vertical band of the density estimator.                             *)
(***************************************************************************)
\* The rows the top scan visits.
ScannedRows == ((gridRows * 15) \div 100)..((gridRows * 60) \div 100 - 1)

\* C33: in the density estimator the accepted vertical band starts at the
\* first scanned row whose average density is above the threshold, contains
\* only rows whose average density is above the threshold, and spans at most
\* 12% of the grid rows.
C33_BandIsShortAndDense ==
    (fnCall.fn = "analyzeTextDensity" /\ fnCall.processed /\ fnResult # NoResult)
        => LET b == detectedBounds
           IN  /\ b.top \in ScannedRows /\ rowAbove(b.top)
               /\ \A row \in ScannedRows : row < b.top => ~rowAbove(row)
               /\ \A row \in b.top..b.bottom : rowAbove(row)
               /\ 100 * (b.bottom - b.top + 1) <= 12 * gridRows
               /\ fnResult.rect = screenRectOf(b, fnCall.screen.width,
                                               fnCall.screen.height)

\* The estimator has run for a 500 by 2000 image area and accepted the band
\* of rows 11 to 14.
C33_Witness ==
    /\ fnCall.fn = "analyzeTextDensity" /\ fnCall.processed
    /\ fnCall.screen = [width |-> 500, height |-> 2000]
    /\ fnResult # NoResult
    /\ detectedBounds.top = 11 /\ detectedBounds.bottom = 14
    /\ fnResult.rect.y = 547

BoxChangePending == \E i \in DOMAIN jsQueue : jsQueue[i].call = "change"

\* C35: when a gesture on the live-preview box has ended, the user's final
\* rectangle is recorded as the manual rectangle before the estimation loop
\* resumes: when the loop effect restarts the loop after the end of the
\* interaction, the box-change call has run, and the rectangle the restarted
\* loop publishes is the manual rectangle, the user's final one.
C35_ManualRecordedBeforeLoopResumes ==
    [][(/\ camAct' = "render"
        /\ gesture = "none" /\ gestureCount > 0
        /\ seen.isUserInteracting /\ ~isUserInteracting
        /\ detectionIntervalRef' # 0
        /\ detectionIntervalRef' # detectionIntervalRef)
          => /\ ~BoxChangePending
             /\ manualBoxRef # NoRect
             /\ detectedBox' = manualBoxRef]_vars

(***************************************************************************)
(* The density estimation of the still-image screen.                       *)
(***************************************************************************)
\* C36: on the still-image screen the density estimation never runs
\* concurrently with itself and is not started again once one has
\* completed: at most one estimation is awaited at any time, and none is
\* awaited after a completion.
C36_OneEstimationAtATime ==
    /\ BagCardinality(detections) <= 1
    /\ autoDetectComplete => detections = EmptyBag

C38_LateMoveChangesNothing ==
    [][(/\ responder # "none"
        /\ ~(IF responder = "drag" THEN isDraggingRef ELSE isResizingRef)
        /\ lastComputed' # lastComputed)
          => /\ lastComputed' = NoRect
             /\ cropBoxRef' = cropBoxRef]_vars

(***************************************************************************)
(* No crop during a gesture.                                               *)
(***************************************************************************)
\* A step in which a debounce timer of the crop effect fires and cropAsync
\* starts (a render changes rendered, cropBoxSet or layoutSet).
CropStarts ==
    /\ cropTimers' # cropTimers
    /\ rendered' = rendered /\ cropBoxSet' = cropBoxSet /\ layoutSet' = layoutSet

\* A drag or resize is in progress: its flag is set and rendered.
GestureInProgress == rendered.isDragging \/ rendered.isResizing

TrackPositionOffsets == {-60, -5, -4, 0, 7, 45}
TrackSizeOffsets == {-30, 0, 9, 10, 80}

TrackStarts ==
    {NoRect} \cup
    {Rect(FreshEstimate.x + dx, FreshEstimate.y + dy,
          FreshEstimate.width + dw, FreshEstimate.height + dh) :
        dx \in TrackPositionOffsets, dy \in TrackPositionOffsets,
        dw \in TrackSizeOffsets, dh \in TrackSizeOffsets}

TrackCalls == [fn : {"runDetection"}, last : TrackStarts]

\* One tick of the loop with no manual rectangle.
TrackTick ==
    /\ fnCall.fn = "runDetection"
    /\ fnResult' = runDetection(NoRect, fnResult.last, fnResult.box)
    /\ UNCHANGED fnCall

InitTracking ==
    /\ CameraMounted
    /\ PreviewMounted
    /\ fnCall \in TrackCalls
    /\ fnResult = [last |-> fnCall.last, box |-> fnCall.last]

NextTracking == TrackTick /\ UNCHANGED <<camVars, prevVars>>

\* The interval timer fires again and again while the loop runs.
TrackScheduling == WF_vars(TrackTick /\ UNCHANGED <<camVars, prevVars>>)

SpecTracking == InitTracking /\ [][NextTracking]_vars /\ TrackScheduling

\* All four fields of r are within the thresholds of the estimator output.
WithinThresholds(r) ==
    /\ r # NoRect
    /\ Abs(FreshEstimate.x - r.x) < POSITION_THRESHOLD
    /\ Abs(FreshEstimate.y - r.y) < POSITION_THRESHOLD
    /\ Abs(FreshEstimate.width - r.width) < SIZE_THRESHOLD
    /\ Abs(FreshEstimate.height - r.height) < SIZE_THRESHOLD

TrackingSettled ==
    /\ fnResult.box = fnResult.last
    /\ WithinThresholds(fnResult.box)

\* C40: with a constant estimator output the tracked rectangle is, from
\* some tick on, a rectangle within the position threshold (x, y) and the
\* size threshold (width, height) of the estimator output, and a tick that
\* finds all four deltas under their thresholds changes neither the tracked
\* rectangle nor the history.
C40_TrackingSettles ==
    /\ [][WithinThresholds(fnResult.last) => fnResult' = fnResult]_vars
    /\ <>[]TrackingSettled

\* Ticks have moved the rectangle from a history outside the thresholds to a
\* rectangle inside them that is not the estimator output itself.
C40_Witness ==
    /\ fnCall.fn = "runDetection"
    /\ fnCall.last # NoRect
    /\ ~WithinThresholds(fnCall.last)
    /\ TrackingSettled
    /\ fnResult.box # FreshEstimate

====
